---- MODULE Spec2Model ----
(***************************************************************************)
(* Event-routing and session-lifecycle engine of the worker runtime.       *)
(*                                                                         *)
(*  Session Manager   ftw/ws/conversation.py, ftw/ws/worker.py             *)
(*  Reader/Dispatcher finetune/events/__main__.py, ftw/sse/events.py       *)
(*  Retry Supervisor  finetune/processes/events.py                         *)
(*  Request Router    finetune/processes/mcp_http_client.py,               *)
(*                    finetune/mcp/http_client.py                          *)
(*  Tool client       ftw/mcp/client.py                                    *)
(*  Session frames    ftw/ws/conversation.py (one unit, frame by frame)    *)
(*                                                                         *)
(* Every subsystem has its own next-state relation and specification; the  *)
(* variables of the other subsystems stay at their initial values.         *)
(***************************************************************************)
EXTENDS Integers, Sequences, FiniteSets, TLC

\* ------------------------------------------------------------------ bounds
MaxUnits == 2          \* conversation threads ever created in one behaviour

Keys == {"k1", "k2"}
Units == 1..MaxUnits
NoUnit == 0

VARIABLES
    \* ---- Session Manager (conversation registry)
    conversation_threads,   \* key -> registered unit, NoUnit when absent
    shutdown_events,        \* key -> unit whose Event is stored, NoUnit when absent
    thread_lock,            \* unit whose creating call still holds the lock, NoUnit = free
    nextUnit,               \* number of threads created so far
    ukey,                   \* unit -> conversation_id it was started with
    ucontent,               \* unit -> content is not None and not yet answered
    upc,                    \* unit -> position in open_conversation_websocket
    event_set,              \* unit -> its threading.Event is set
    open_ret,               \* what the last start_conversation_thread returned
    \* ---- worker registry
    worker_threads,         \* "absent" or "registered"
    wpc,                    \* worker thread: "unborn" or "dead" (TypeError in Thread.run)
    \* ---- Control Channel Reader and Dispatcher
    variant,                \* "finetune": EventListener.start with on_event;
                            \* "ftw": listen_for_events with handle_event
    redis_client,           \* "none" or "client": EventListener.redis_client
    rpc,                    \* position of the reader
    stop_event,             \* EventListener._stop_event is set
    session_open,           \* the aiohttp ClientSession exists and is not closed
    stream,                 \* the lines the server has written to the response body
    stream_closed,          \* the server has ended the body
    pos,                    \* number of lines the reader has taken from the body
    dispatched,             \* positions of the lines the dispatcher was invoked for
    discarded,              \* number of data lines dropped on JSONDecodeError
    last_msg,               \* payload of the last dispatcher invocation
    last_out,               \* outcome of the last dispatcher invocation
    \* ---- Retry Supervisor (EventsProcess)
    running,                \* BaseProcess.running
    retry_delay,            \* the local retry_delay of run_event_listener_with_redis
    spc,                    \* position of run_event_listener_with_redis
    event_task,             \* state of the task running EventListener.start()
    redis_task,             \* state of the task running process_redis_messages()
    attempt,                \* number of EventListeners constructed so far
    run_dispatched,         \* messages the current or last run dispatched
    fails,                  \* consecutive runs that ended having dispatched nothing
    any_success,            \* some run has dispatched a message
    slept,                  \* the delay of the retry sleep since the last run ended, 0 = none
    \* ---- Cross-Process Request Router (MCPHTTPClientProcess, HTTPClient)
    mcp_running,            \* BaseProcess.running of the router process
    mcp_pc,                 \* position of run_mcp_client
    client_pc,              \* position of the client task (client_wrapper, HTTPClient.start)
    client_ready,           \* MCPHTTPClientProcess._client_ready is set
    client_stop,            \* HTTPClient._stop_event is set
    mcp_requests,           \* messages on channel mcp_requests not yet taken
    published,              \* ids of the control messages the dispatcher has published
    handler_pc,             \* position of the task running process_redis_messages
    cur,                    \* index in consumed of the request being handled
    consumed,               \* the requests taken from mcp_requests, with their fate
    mcp_responses,          \* messages published on channel mcp_responses
    \* ---- external tool client thread (ftw/mcp/client.py)
    worker_mcp_client_thread,   \* the global thread reference, NoThread = None
    mcp_shutdown_event,     \* the global shutdown_event: thread it was created for
    mcp_event_set,          \* thread -> the Event created for it is set
    mcp_own_event,          \* thread -> the Event it runs with
    mcp_thread_pc,          \* thread -> position in main(shutdown_event)
    mcp_started,            \* number of client threads started so far
    mcp_ret,                \* what the last worker_start_mcp_client returned
    \* ---- one session, frame by frame (open_conversation_websocket)
    ws_pc,                  \* position of the unit
    ws_content,             \* the content the unit was started with, NoContent = None
    ws_event,               \* the unit's shutdown Event is set
    ws_inbox,               \* frames the peer has written and recv() has not returned
    ws_received,            \* frames recv() has returned, in order
    ws_sent,                \* messages passed to websocket.send, in order
    ws_peer_sent,           \* number of frames the peer has written
    ws_exit,                \* why the unit left its receive loop
    ws_at_close,            \* frames received and responses sent when the Event was set
    \* ---- the router functions applied to single requests
    hr_log,                 \* the calls made: request, redis_client, response
    \* ---- PubSub Bridge (RedisClient, PubSubWrapper)
    bs_handle,              \* per client: get_pubsub has created the PubSubWrapper
    bs_subs,                \* per client: channels its handle is subscribed to
    bs_inbox,               \* per client: messages the server wrote, not yet polled
    bs_last,                \* what the last get_message returned, and to which component
    bs_published,           \* number of publish calls made
    bs_got,                 \* per component: it has called get_pubsub
    bs_asked,               \* per component: channels it has called subscribe for
    bs_due,                 \* per component: messages published on channels it asked for
    bs_seen,                \* per component: messages its get_message returned, in order
    \* ---- RedisClient.publish, one call at a time
    pub_calls,              \* number of publish calls made
    pub_last,               \* the last call: its inputs and what came of it
    \* ---- MCPClientProcess (stdio client)
    cp_running,             \* self.running
    cp_pc,                  \* position of run_mcp_client
    cp_client,              \* state of the MCPClient's _run_client task
    cp_stop,                \* _shutdown has scheduled MCPClient.stop()
    cp_pending,             \* requests published on mcp_requests, unread on the subscription
    cp_started              \* MCPClients constructed

sessVars == <<conversation_threads, shutdown_events, thread_lock, nextUnit, ukey,
              ucontent, upc, event_set, open_ret>>
workerVars == <<worker_threads, wpc>>
readerVars == <<variant, redis_client, rpc, stop_event, session_open, stream,
                stream_closed, pos, dispatched, discarded, last_msg, last_out>>
superVars == <<running, retry_delay, spc, event_task, redis_task, attempt,
               run_dispatched, fails, any_success, slept>>
routerVars == <<mcp_running, mcp_pc, client_pc, client_ready, client_stop,
                mcp_requests, published, handler_pc, cur, consumed, mcp_responses>>
mcpVars == <<worker_mcp_client_thread, mcp_shutdown_event, mcp_event_set,
             mcp_own_event, mcp_thread_pc, mcp_started, mcp_ret>>
streamVars == <<ws_pc, ws_content, ws_event, ws_inbox, ws_received, ws_sent,
                ws_peer_sent, ws_exit, ws_at_close>>
handleVars == <<hr_log>>
bridgeVars == <<bs_handle, bs_subs, bs_inbox, bs_last, bs_published, bs_got, bs_asked,
                bs_due, bs_seen>>
publishVars == <<pub_calls, pub_last>>
stdioVars == <<cp_running, cp_pc, cp_client, cp_stop, cp_pending, cp_started>>
toolVars == <<routerVars, mcpVars, streamVars, handleVars, bridgeVars, publishVars,
              stdioVars>>

\* ------------------------------------------------------- Session Manager
\* positions of a unit in which its duplex connection is being established or is live
ConnStates == {"connect", "greet", "loop", "recv", "closing"}

FrameKinds == {"close", "prompt_query", "other", "malformed"}

\* open_ret: the handle the last start_conversation_thread returned, with what
\* held when that call tested the registry: closed = shutdown had been called on
\* the key's latest thread, prevDone = every earlier thread of the key had
\* finished its finally block
NoRet == [key |-> "k1", unit |-> NoUnit, fresh |-> FALSE, closed |-> FALSE, prevDone |-> FALSE]

KeyClosed(k) == shutdown_events[k] # NoUnit /\ event_set[shutdown_events[k]]

KeyPrevDone(k) == \A v \in Units : (ukey[v] = k /\ upc[v] # "unborn") => upc[v] = "done"

SessInit ==
    /\ conversation_threads = [k \in Keys |-> NoUnit]
    /\ shutdown_events = [k \in Keys |-> NoUnit]
    /\ thread_lock = NoUnit
    /\ nextUnit = 0
    /\ ukey = [u \in Units |-> "k1"]
    /\ ucontent = [u \in Units |-> FALSE]
    /\ upc = [u \in Units |-> "unborn"]
    /\ event_set = [u \in Units |-> FALSE]
    /\ open_ret = NoRet

\* mutant of KeyActive: the membership test always fails
KeyActiveNever(k) == FALSE

\* `conversation_id in conversation_threads`
KeyActive(k) == conversation_threads[k] # NoUnit

\* start_conversation_thread(k, _), key present: with thread_lock, return the
\* registered thread
OpenJoin(k) ==
    /\ thread_lock = NoUnit
    /\ KeyActive(k)
    /\ open_ret' = [key |-> k, unit |-> conversation_threads[k], fresh |-> FALSE,
                    closed |-> KeyClosed(k), prevDone |-> KeyPrevDone(k)]
    /\ UNCHANGED <<conversation_threads, shutdown_events, thread_lock, nextUnit,
                   ukey, ucontent, upc, event_set>>

\* mutant of NewEvent: the Event stored for the key is used again, in the state
\* it is in
NewEventReused(k) == shutdown_events[k] # NoUnit /\ event_set[shutdown_events[k]]

\* shutdown_event = threading.Event(): the flag of a new Event is false
NewEvent(k) == FALSE

\* start_conversation_thread(k, content), key absent: with thread_lock, a new
\* Event is stored and a new thread started; the lock stays held until the
\* thread is registered
OpenCreate(k, b) ==
    /\ thread_lock = NoUnit
    /\ ~KeyActive(k)
    /\ nextUnit < MaxUnits
    /\ LET u == nextUnit + 1 IN
        /\ nextUnit' = u
        /\ shutdown_events' = [shutdown_events EXCEPT ![k] = u]
        /\ ukey' = [ukey EXCEPT ![u] = k]
        /\ ucontent' = [ucontent EXCEPT ![u] = b]
        /\ upc' = [upc EXCEPT ![u] = "connect"]
        /\ event_set' = [event_set EXCEPT ![u] = NewEvent(k)]
        /\ thread_lock' = u
    /\ open_ret' = [key |-> k, unit |-> NoUnit, fresh |-> TRUE,
                    closed |-> KeyClosed(k), prevDone |-> KeyPrevDone(k)]
    /\ UNCHANGED conversation_threads

\* mutant of RegistryAfterRegister: the thread is started but never registered
RegistryNotRegistered(u) == conversation_threads

\* conversation_threads[conversation_id] = new_thread
RegistryAfterRegister(u) == [conversation_threads EXCEPT ![ukey[u]] = u]

\* mutant of LockAfterReturn: the lock stays held for the life of the thread
LockKeptByThread(u) == u

\* the return leaves the `with thread_lock:` block: the lock is free
LockAfterReturn(u) == NoUnit

\* conversation_threads[conversation_id] = new_thread; return new_thread; the
\* lock is released
OpenRegister ==
    /\ thread_lock # NoUnit
    /\ conversation_threads' = RegistryAfterRegister(thread_lock)
    /\ open_ret' = [open_ret EXCEPT !.unit = thread_lock]
    /\ thread_lock' = LockAfterReturn(thread_lock)
    /\ UNCHANGED <<shutdown_events, nextUnit, ukey, ucontent, upc, event_set>>

\* shutdown_conversation_thread(k): with thread_lock, set the stored Event when
\* there is one, else only a log line
Close(k) ==
    /\ thread_lock = NoUnit
    /\ event_set' = IF shutdown_events[k] # NoUnit
                    THEN [event_set EXCEPT ![shutdown_events[k]] = TRUE]
                    ELSE event_set
    /\ UNCHANGED <<conversation_threads, shutdown_events, thread_lock, nextUnit,
                   ukey, ucontent, upc, open_ret>>

UnitGoto(u, pc) ==
    /\ upc' = [upc EXCEPT ![u] = pc]
    /\ ucontent' = [ucontent EXCEPT ![u] = ucontent[u] /\ pc = "greet"]
    /\ UNCHANGED <<conversation_threads, shutdown_events, thread_lock, nextUnit,
                   ukey, event_set, open_ret>>

\* websockets.connect succeeds; `if content is not None`
ConnectOk(u) ==
    /\ upc[u] = "connect"
    /\ UnitGoto(u, IF ucontent[u] THEN "greet" ELSE "loop")

\* websockets.connect raises: except Exception, then finally
ConnectFail(u) ==
    /\ upc[u] = "connect"
    /\ UnitGoto(u, "cleanup")

\* respond_to_prompt(content) before the loop; ok = handler and send succeed
Greet(u, ok) ==
    /\ upc[u] = "greet"
    /\ UnitGoto(u, IF ok THEN "loop" ELSE "cleanup")

\* while not shutdown_event.is_set()
LoopCheck(u) ==
    /\ upc[u] = "loop"
    /\ UnitGoto(u, IF event_set[u] THEN "closing" ELSE "recv")

\* mutant of RecvHasTimeout: a bare websocket.recv()
RecvNoTimeout == FALSE

\* asyncio.wait_for(websocket.recv(), timeout=10)
RecvHasTimeout == TRUE

\* asyncio.TimeoutError: back to the loop test
RecvTimeout(u) ==
    /\ upc[u] = "recv"
    /\ RecvHasTimeout
    /\ UnitGoto(u, "loop")

\* mutant of AfterFrame: the unit connects again after a frame it cannot parse
AfterFrameReconnect(f, ok) ==
    CASE f = "close" -> "closing"
      [] f = "prompt_query" -> IF ok THEN "loop" ELSE "cleanup"
      [] f = "other" -> "loop"
      [] f = "malformed" -> "connect"

\* where a received frame of kind f leaves the unit; ok = handler and send succeed
AfterFrame(f, ok) ==
    CASE f = "close" -> "closing"
      [] f = "prompt_query" -> IF ok THEN "loop" ELSE "cleanup"
      [] f = "other" -> "loop"
      [] f = "malformed" -> "cleanup"

\* the peer sends a frame: json.loads and the type dispatch
RecvFrame(u, f, ok) ==
    /\ upc[u] = "recv"
    /\ UnitGoto(u, AfterFrame(f, ok))

\* websockets.exceptions.ConnectionClosed: break
RecvPeerClose(u) ==
    /\ upc[u] = "recv"
    /\ UnitGoto(u, "closing")

\* await websocket.close()
CloseSocket(u) ==
    /\ upc[u] = "closing"
    /\ UnitGoto(u, "cleanup")

\* mutant of RegistryAfterCleanup: the finally block forgets the del
RegistryKeepsEntry(u) == conversation_threads

\* finally: if conversation_id in conversation_threads: del ...
RegistryAfterCleanup(u) == [conversation_threads EXCEPT ![ukey[u]] = NoUnit]

\* finally: with thread_lock: remove the entry of the unit's key
Cleanup(u) ==
    /\ upc[u] = "cleanup"
    /\ thread_lock = NoUnit
    /\ conversation_threads' = RegistryAfterCleanup(u)
    /\ upc' = [upc EXCEPT ![u] = "done"]
    /\ UNCHANGED <<shutdown_events, thread_lock, nextUnit, ukey, ucontent,
                   event_set, open_ret>>

\* the steps a unit takes by itself
UnitStep(u) ==
    \/ ConnectOk(u)
    \/ \E ok \in BOOLEAN : Greet(u, ok)
    \/ LoopCheck(u)
    \/ RecvTimeout(u)
    \/ CloseSocket(u)
    \/ Cleanup(u)

\* the steps that need the peer: a refused connection, a frame, a close
PeerStep(u) ==
    \/ ConnectFail(u)
    \/ \E f \in FrameKinds, ok \in BOOLEAN : RecvFrame(u, f, ok)
    \/ RecvPeerClose(u)

\* ------------------------------------------------------- worker registry
WorkerInit ==
    /\ worker_threads = "absent"
    /\ wpc = "unborn"

\* start_worker_thread(): Thread(target=run_worker, args=(shutdown_event)) is
\* started and registered; args is not a tuple, so Thread.run raises TypeError
\* before run_worker is entered and the thread ends without its finally block
StartWorkerThread ==
    /\ worker_threads = "absent"
    /\ worker_threads' = "registered"
    /\ wpc' = "dead"
    /\ UNCHANGED sessVars

\* start_worker_thread() again: the entry is present, the dead thread is returned
StartWorkerJoin ==
    /\ worker_threads = "registered"
    /\ UNCHANGED <<sessVars, workerVars>>

\* ------------------------------------------- Control Channel Reader, Dispatcher
MaxLines == 3          \* lines the server writes to one response body

MethodNotFound == -32601

\* a line of the body after decode and strip: neither prefix, ":" prefix,
\* "data:" with text json.loads rejects, "data:" with text json.loads accepts
LineKinds == {"blank", "heartbeat", "bad", "valid"}

Methods == {"worker_ping", "worker_ping_all_active", "worker_mcp_request",
            "worker_task_created", "worker_start_websocket_thread",
            "conversation_open_websocket", "conversation_close_websocket",
            "ping", "tool", "open_worker_websocket", "open_conversation_websocket",
            "close_conversation_websocket", "bogus"}

Ids == {"none", "a", "b"}

\* values json.loads returns that are no dict: int/float, str, list, None
NonMappingShapes == {"num", "str", "list", "null"}

\* what json.loads returns for an accepted payload: a mapping with a method, with
\* params that are a mapping or not, and an id; or a value that is no mapping
Payloads ==
    [shape : {"map"}, method : Methods, params : {"map", "null"}, id : Ids]
        \cup [shape : NonMappingShapes, method : {"bogus"}, params : {"null"},
              id : {"none"}]

NoMsg == [shape |-> "none", method |-> "bogus", params |-> "null", id |-> "none"]

NoOut == [kind |-> "none", val |-> "", code |-> 0, id |-> "none", effect |-> "none"]

Result(val, id, effect) ==
    [kind |-> "result", val |-> val, code |-> 0, id |-> id, effect |-> effect]

ErrorResponse(code, id) ==
    [kind |-> "error", val |-> "", code |-> code, id |-> id, effect |-> "none"]

\* an exception leaves the dispatcher: no response
Raised == [kind |-> "raise", val |-> "", code |-> 0, id |-> "none", effect |-> "none"]

\* finetune.ws.worker.worker_start_websocket_thread(worker_id): opens the worker
\* session and returns
WorkerStartWebsocketThread(id) ==
    Result("worker websocket opened", id, "worker_open")

\* start_worker_thread(settings.WORKER_ID): the function takes no parameter
StartWorkerThreadCall(id) == Raised

\* the method names with a branch in on_event / in handle_event
OnEventMethods ==
    {"worker_ping", "worker_ping_all_active", "worker_mcp_request",
     "worker_task_created", "worker_start_websocket_thread",
     "conversation_open_websocket", "conversation_close_websocket"}

HandleEventMethods ==
    {"ping", "tool", "open_worker_websocket", "open_conversation_websocket",
     "close_conversation_websocket"}

\* mutant of UnknownMethod: the error response loses the id of the message
UnknownMethodNoId(msg) == ErrorResponse(MethodNotFound, "none")

\* the else branch: error -32601 with "id": request_id, nothing else is done
UnknownMethod(msg) == ErrorResponse(MethodNotFound, msg.id)

\* worker_pong() / respond_to_ping(): the POST is made inside try / except
\* Exception, a status other than 200 is printed; nothing is raised or returned
worker_pong(post_ok) == IF post_ok THEN "pong_post" ELSE "pong_post_failed"

\* mutant of PongResponse: a failed POST leaves the dispatcher as an exception
PongResponseRaises(id, post_ok) ==
    IF post_ok THEN Result("pong", id, worker_pong(post_ok)) ELSE Raised

\* await worker_pong(); return {"result": "pong", "id": request_id}
PongResponse(id, post_ok) == Result("pong", id, worker_pong(post_ok))

\* EventListener.on_event(data)
on_event(msg, redis, post_ok) ==
    IF msg.shape # "map" THEN Raised
    ELSE CASE msg.method \in {"worker_ping", "worker_ping_all_active"} ->
                PongResponse(msg.id, post_ok)
           [] msg.method = "worker_mcp_request" ->
                IF redis = "none" THEN ErrorResponse(MethodNotFound, msg.id)
                ELSE Result("MCP request processed", msg.id, "publish")
           [] msg.method = "worker_task_created" ->
                Result("received task", msg.id, "none")
           [] msg.method = "worker_start_websocket_thread" ->
                WorkerStartWebsocketThread(msg.id)
           [] msg.method = "conversation_open_websocket" ->
                IF msg.params # "map" THEN Raised
                ELSE Result("conversation websocket opened", msg.id, "open")
           [] msg.method = "conversation_close_websocket" ->
                IF msg.params # "map" THEN Raised
                ELSE Result("conversation websocket closed", msg.id, "close")
           [] OTHER -> UnknownMethod(msg)

\* handle_event(data)
handle_event(msg, post_ok) ==
    IF msg.shape # "map" THEN Raised
    ELSE CASE msg.method = "ping" -> PongResponse(msg.id, post_ok)
           [] msg.method = "tool" ->
                IF msg.params # "map" THEN Raised
                ELSE Result("tool executed", msg.id, "task")
           [] msg.method = "open_worker_websocket" -> StartWorkerThreadCall(msg.id)
           [] msg.method = "open_conversation_websocket" ->
                IF msg.params # "map" THEN Raised
                ELSE Result("conversation websocket opened", msg.id, "open")
           [] msg.method = "close_conversation_websocket" ->
                IF msg.params # "map" THEN Raised
                ELSE Result("conversation websocket closed", msg.id, "close")
           [] OTHER -> UnknownMethod(msg)

Dispatch(msg, post_ok) ==
    IF variant = "finetune" THEN on_event(msg, redis_client, post_ok)
    ELSE handle_event(msg, post_ok)

ReaderInit ==
    /\ variant = "finetune"
    /\ redis_client = "none"
    /\ rpc = "idle"
    /\ stop_event = FALSE
    /\ session_open = FALSE
    /\ stream = <<>>
    /\ stream_closed = FALSE
    /\ pos = 0
    /\ dispatched = <<>>
    /\ discarded = 0
    /\ last_msg = NoMsg
    /\ last_out = NoOut

\* one of the two readers is started, EventListener with or without a
\* redis_client: aiohttp.ClientSession(...) is created and the GET is issued
ReaderStart(v, r) ==
    /\ rpc = "idle"
    /\ rpc' = "connecting"
    /\ variant' = v
    /\ redis_client' = r
    /\ session_open' = TRUE
    /\ UNCHANGED <<stop_event, stream, stream_closed, pos, dispatched, discarded,
                   last_msg, last_out>>

\* mutant of SessionAfterExit: start() ends without closing its session
SessionLeftOpen(open) == open

\* finally: if self.session: await self.session.close() (the async with of
\* listen_for_events); the session is closed whatever it was
SessionAfterExit(open) == FALSE

\* the GET answers 200: the body is read line by line
ReaderConnected ==
    /\ rpc = "connecting"
    /\ rpc' = "reading"
    /\ UNCHANGED <<variant, redis_client, stop_event, session_open, stream,
                   stream_closed, pos, dispatched, discarded, last_msg, last_out>>

\* the GET raises, the status is not 200 (raise_for_status), or reading the
\* body raises: the exception leaves start() and the session is closed
ReaderTransportError ==
    /\ rpc \in {"connecting", "reading"}
    /\ rpc' = "ended_transport"
    /\ session_open' = SessionAfterExit(session_open)
    /\ UNCHANGED <<variant, redis_client, stop_event, stream, stream_closed, pos,
                   dispatched, discarded, last_msg, last_out>>

\* the server writes one more line to the body
ServerSend(line) ==
    /\ rpc = "reading"
    /\ ~stream_closed
    /\ Len(stream) < MaxLines
    /\ stream' = Append(stream, line)
    /\ UNCHANGED <<variant, redis_client, rpc, stop_event, session_open,
                   stream_closed, pos, dispatched, discarded, last_msg, last_out>>

\* the server ends the body
ServerEnd ==
    /\ rpc = "reading"
    /\ ~stream_closed
    /\ stream_closed' = TRUE
    /\ UNCHANGED <<variant, redis_client, rpc, stop_event, session_open, stream,
                   pos, dispatched, discarded, last_msg, last_out>>

\* EventListener.stop(): the one-shot signal (there is none in listen_for_events)
ReaderStop ==
    /\ variant = "finetune"
    /\ rpc \in {"connecting", "reading"}
    /\ ~stop_event
    /\ stop_event' = TRUE
    /\ UNCHANGED <<variant, redis_client, rpc, session_open, stream, stream_closed,
                   pos, dispatched, discarded, last_msg, last_out>>

\* mutant of StopSeen: the loop never tests the signal
StopNeverSeen == FALSE

\* if self._stop_event.is_set()
StopSeen == stop_event

\* the next line arrives while the stop signal is set: break, session closed
ReaderBreak ==
    /\ rpc = "reading"
    /\ pos < Len(stream)
    /\ StopSeen
    /\ pos' = pos + 1
    /\ rpc' = "stopped"
    /\ session_open' = SessionAfterExit(session_open)
    /\ UNCHANGED <<variant, redis_client, stop_event, stream, stream_closed,
                   dispatched, discarded, last_msg, last_out>>

\* a line that is no data line: blank, or a heartbeat
ReaderSkip ==
    /\ rpc = "reading"
    /\ pos < Len(stream)
    /\ ~StopSeen
    /\ stream[pos + 1] \in {"blank", "heartbeat"}
    /\ pos' = pos + 1
    /\ UNCHANGED <<variant, redis_client, rpc, stop_event, session_open, stream,
                   stream_closed, dispatched, discarded, last_msg, last_out>>

\* a data line json.loads rejects: JSONDecodeError is caught, the line dropped
ReaderDiscard ==
    /\ rpc = "reading"
    /\ pos < Len(stream)
    /\ ~StopSeen
    /\ stream[pos + 1] = "bad"
    /\ pos' = pos + 1
    /\ discarded' = discarded + 1
    /\ UNCHANGED <<variant, redis_client, rpc, stop_event, session_open, stream,
                   stream_closed, dispatched, last_msg, last_out>>

\* a data line json.loads accepts: await on_event(data); an exception of the
\* dispatcher is no JSONDecodeError, so it leaves the loop and start().
\* post_ok: whether the pong POST, if the message causes one, succeeds
ReaderDispatch(msg, post_ok) ==
    /\ rpc = "reading"
    /\ pos < Len(stream)
    /\ ~StopSeen
    /\ stream[pos + 1] = "valid"
    /\ pos' = pos + 1
    /\ dispatched' = Append(dispatched, pos + 1)
    /\ last_msg' = msg
    /\ last_out' = Dispatch(msg, post_ok)
    /\ rpc' = IF Dispatch(msg, post_ok).kind = "raise" THEN "ended_dispatch" ELSE "reading"
    /\ session_open' = IF Dispatch(msg, post_ok).kind = "raise"
                     THEN SessionAfterExit(session_open) ELSE session_open
    /\ UNCHANGED <<variant, redis_client, stop_event, stream, stream_closed, discarded>>

\* the body is exhausted: start() returns, the session is closed
ReaderEof ==
    /\ rpc = "reading"
    /\ pos = Len(stream)
    /\ stream_closed
    /\ rpc' = "ended_clean"
    /\ session_open' = SessionAfterExit(session_open)
    /\ UNCHANGED <<variant, redis_client, stop_event, stream, stream_closed, pos,
                   dispatched, discarded, last_msg, last_out>>

\* the readers that can be started: EventListener (with on_event) without or
\* with a redis_client, listen_for_events with handle_event
ReaderConfigs == {<<"finetune", "none">>, <<"finetune", "client">>, <<"ftw", "none">>}

\* the positions, in order, of the lines of kind k among the first n lines
PositionsOf(k, n) ==
    SelectSeq([i \in 1..n |-> i], LAMBDA i : stream[i] = k)

ReaderNext ==
    \/ \E c \in ReaderConfigs :
            ReaderStart(c[1], c[2]) /\ UNCHANGED <<sessVars, workerVars, superVars, toolVars>>
    \/ ReaderConnected /\ UNCHANGED <<sessVars, workerVars, superVars, toolVars>>
    \/ ReaderTransportError /\ UNCHANGED <<sessVars, workerVars, superVars, toolVars>>
    \/ \E line \in LineKinds : ServerSend(line) /\ UNCHANGED <<sessVars, workerVars, superVars, toolVars>>
    \/ ServerEnd /\ UNCHANGED <<sessVars, workerVars, superVars, toolVars>>
    \/ ReaderStop /\ UNCHANGED <<sessVars, workerVars, superVars, toolVars>>
    \/ ReaderBreak /\ UNCHANGED <<sessVars, workerVars, superVars, toolVars>>
    \/ ReaderSkip /\ UNCHANGED <<sessVars, workerVars, superVars, toolVars>>
    \/ ReaderDiscard /\ UNCHANGED <<sessVars, workerVars, superVars, toolVars>>
    \/ \E msg \in Payloads, post_ok \in BOOLEAN :
            ReaderDispatch(msg, post_ok) /\ UNCHANGED <<sessVars, workerVars, superVars, toolVars>>
    \/ ReaderEof /\ UNCHANGED <<sessVars, workerVars, superVars, toolVars>>

\* ------------------------------------------------------- Retry Supervisor
MaxAttempts == 8       \* EventListeners constructed in one behaviour
MaxDispatch == 2       \* messages counted per run

RetryFloor == 1
MaxDelay == 60

Min(a, b) == IF a < b THEN a ELSE b

RECURSIVE Pow2(_)
Pow2(n) == IF n = 0 THEN 1 ELSE 2 * Pow2(n - 1)

SuperInit ==
    /\ running = TRUE
    /\ retry_delay = RetryFloor
    /\ spc = "loop"
    /\ event_task = "none"
    /\ redis_task = "none"
    /\ attempt = 0
    /\ run_dispatched = 0
    /\ fails = 0
    /\ any_success = FALSE
    /\ slept = 0

\* while self.running: a new EventListener and the two tasks are created, then
\* asyncio.wait(..., return_when=FIRST_EXCEPTION)
SupStartRun ==
    /\ spc = "loop"
    /\ running
    /\ attempt < MaxAttempts
    /\ attempt' = attempt + 1
    /\ event_task' = "running"
    /\ redis_task' = "poll"
    /\ run_dispatched' = 0
    /\ spc' = "wait"
    /\ slept' = 0
    /\ UNCHANGED <<running, retry_delay, fails, any_success>>

\* while self.running is false: "Event listener stopped"
SupExit ==
    /\ spc = "loop"
    /\ ~running
    /\ spc' = "stopped"
    /\ UNCHANGED <<running, retry_delay, event_task, redis_task, attempt,
                   run_dispatched, fails, any_success, slept>>

\* the reader dispatches one message
RunDispatch ==
    /\ event_task = "running"
    /\ run_dispatched < MaxDispatch
    /\ run_dispatched' = run_dispatched + 1
    /\ UNCHANGED <<running, retry_delay, spc, event_task, redis_task, attempt,
                   fails, any_success, slept>>

\* EventListener.start() raises: connection error, status, dispatcher exception
RunFail ==
    /\ event_task = "running"
    /\ event_task' = "exc"
    /\ UNCHANGED <<running, retry_delay, spc, redis_task, attempt, run_dispatched,
                   fails, any_success, slept>>

\* EventListener.start() returns: the remote closed the stream, or a line
\* arrived after stop()
RunClose ==
    /\ event_task = "running"
    /\ event_task' = "done"
    /\ UNCHANGED <<running, retry_delay, spc, redis_task, attempt, run_dispatched,
                   fails, any_success, slept>>

\* process_redis_messages: while self.running: get_message(timeout=1.0), every
\* exception caught, then asyncio.sleep(0.01); the loop ends when running is false
RedisStep ==
    /\ redis_task \in {"poll", "sleep"}
    /\ redis_task' = IF redis_task = "poll" THEN "sleep"
                     ELSE IF running THEN "poll" ELSE "done"
    /\ UNCHANGED <<running, retry_delay, spc, event_task, attempt, run_dispatched,
                   fails, any_success, slept>>

\* asyncio.wait(return_when=FIRST_EXCEPTION) returns when a task has raised or
\* when every task is done
WaitReturns == event_task = "exc" \/ (event_task = "done" /\ redis_task = "done")

\* the history of the run that has just ended
RunEnded ==
    /\ fails' = IF run_dispatched = 0 THEN fails + 1 ELSE 0
    /\ any_success' = (any_success \/ run_dispatched > 0)

\* asyncio.wait returns; a raised exception is re-raised and logged, pending
\* tasks are cancelled; finally: listener stopped, tasks cancelled
SupWaitReturn ==
    /\ spc = "wait"
    /\ WaitReturns
    /\ redis_task' = IF redis_task \in {"poll", "sleep"} THEN "cancelled" ELSE redis_task
    /\ event_task' = IF event_task = "running" THEN "cancelled" ELSE event_task
    /\ RunEnded
    /\ spc' = "after"
    /\ UNCHANGED <<running, retry_delay, attempt, run_dispatched, slept>>

\* mutant of AfterRun: the loop goes back to its test without the sleep
AfterRunNoSleep(r) == "loop"

\* if self.running: await asyncio.sleep(retry_delay); else back to the loop test
AfterRun(r) == IF r THEN "sleeping" ELSE "loop"

\* the code after the finally block; slept is the length of the sleep begun
\* since the last run ended, 0 when there was none
SupAfter ==
    /\ spc = "after"
    /\ spc' = AfterRun(running)
    /\ slept' = IF AfterRun(running) = "sleeping" THEN retry_delay ELSE slept
    /\ UNCHANGED <<running, retry_delay, event_task, redis_task, attempt,
                   run_dispatched, fails, any_success>>

\* mutant of NextDelay: the delay is doubled without the ceiling
NextDelayUncapped(d) == d * 2

\* retry_delay = min(retry_delay * 2, max_delay)
NextDelay(d) == Min(d * 2, MaxDelay)

\* the sleep ends; the delay is doubled up to max_delay
SupWake ==
    /\ spc = "sleeping"
    /\ retry_delay' = NextDelay(retry_delay)
    /\ spc' = "loop"
    /\ UNCHANGED <<running, event_task, redis_task, attempt, run_dispatched,
                   fails, any_success, slept>>

\* _shutdown(signum, frame): self.running = False
Shutdown ==
    /\ running
    /\ spc # "stopped"
    /\ running' = FALSE
    /\ UNCHANGED <<retry_delay, spc, event_task, redis_task, attempt,
                   run_dispatched, fails, any_success, slept>>

\* the supervisor coroutine is cancelled while it awaits asyncio.wait or the
\* retry sleep: except CancelledError: break (finally cancels both tasks), or the
\* CancelledError leaves the coroutine from the sleep
SupCancel ==
    /\ spc \in {"wait", "sleeping"}
    /\ spc' = "stopped"
    /\ event_task' = IF event_task = "running" THEN "cancelled" ELSE event_task
    /\ redis_task' = IF redis_task \in {"poll", "sleep"} THEN "cancelled" ELSE redis_task
    /\ UNCHANGED <<running, retry_delay, attempt, run_dispatched, fails,
                   any_success, slept>>

SuperNext ==
    \/ SupStartRun /\ UNCHANGED <<sessVars, workerVars, readerVars, toolVars>>
    \/ SupExit /\ UNCHANGED <<sessVars, workerVars, readerVars, toolVars>>
    \/ RunDispatch /\ UNCHANGED <<sessVars, workerVars, readerVars, toolVars>>
    \/ RunFail /\ UNCHANGED <<sessVars, workerVars, readerVars, toolVars>>
    \/ RunClose /\ UNCHANGED <<sessVars, workerVars, readerVars, toolVars>>
    \/ RedisStep /\ UNCHANGED <<sessVars, workerVars, readerVars, toolVars>>
    \/ SupWaitReturn /\ UNCHANGED <<sessVars, workerVars, readerVars, toolVars>>
    \/ SupAfter /\ UNCHANGED <<sessVars, workerVars, readerVars, toolVars>>
    \/ SupWake /\ UNCHANGED <<sessVars, workerVars, readerVars, toolVars>>
    \/ Shutdown /\ UNCHANGED <<sessVars, workerVars, readerVars, toolVars>>
    \/ SupCancel /\ UNCHANGED <<sessVars, workerVars, readerVars, toolVars>>

\* ------------------------------------------- Cross-Process Request Router
\* MCPHTTPClientProcess with its HTTPClient: one process, one event loop
MaxRequests == 2       \* control messages the dispatcher publishes on mcp_requests

\* the value of the "id" member of a published control message; "null" is a
\* JSON null, "missing" a message without the member
RequestIds == {"a", "b", "null", "missing"}

\* the inner method of a request: one HTTPClient.handle_request knows, one it
\* does not
RequestMethods == {"ping", "other"}

NoRequest == 0

RouterInit ==
    /\ mcp_running = TRUE
    /\ mcp_pc = "loop"
    /\ client_pc = "none"
    /\ client_ready = FALSE
    /\ client_stop = FALSE
    /\ mcp_requests = <<>>
    /\ published = <<>>
    /\ handler_pc = "none"
    /\ cur = NoRequest
    /\ consumed = <<>>
    /\ mcp_responses = <<>>

\* HTTPClient.session is set from the ClientSession construction until start()
\* leaves its outer try
SessionSet == client_pc \in {"handshake", "serving"}

\* EventListener.on_event, method worker_mcp_request with a redis client:
\* self.redis_client.publish('mcp_requests', data)
DispatcherPublish(id, method) ==
    /\ Len(published) < MaxRequests
    /\ published' = Append(published, id)
    /\ mcp_requests' = Append(mcp_requests, [id |-> id, method |-> method])
    /\ UNCHANGED <<mcp_running, mcp_pc, client_pc, client_ready, client_stop,
                   handler_pc, cur, consumed, mcp_responses>>

\* run_mcp_client: while self.running: a new HTTPClient, the client task and
\* the redis task are created, then asyncio.wait(FIRST_EXCEPTION)
RouterStart ==
    /\ mcp_pc = "loop"
    /\ mcp_running
    /\ mcp_pc' = "wait"
    /\ client_pc' = "init"
    /\ client_stop' = FALSE
    /\ handler_pc' = "poll"
    /\ UNCHANGED <<mcp_running, client_ready, mcp_requests, published, cur,
                   consumed, mcp_responses>>

\* while self.running is false before any client was started
RouterExit ==
    /\ mcp_pc = "loop"
    /\ ~mcp_running
    /\ mcp_pc' = "stopped"
    /\ UNCHANGED <<mcp_running, client_pc, client_ready, client_stop, mcp_requests,
                   published, handler_pc, cur, consumed, mcp_responses>>

\* asyncio.wait(FIRST_EXCEPTION) returns once both tasks are done (neither task
\* lets an exception out); finally: stop(), self._mcp_client = None; then the
\* retry sleep if still running, else break
RouterWaitReturn ==
    /\ mcp_pc = "wait"
    /\ client_pc = "ended"
    /\ handler_pc = "done"
    /\ mcp_pc' = IF mcp_running THEN "sleeping" ELSE "stopped"
    /\ client_stop' = TRUE
    /\ UNCHANGED <<mcp_running, client_pc, client_ready, mcp_requests, published,
                   handler_pc, cur, consumed, mcp_responses>>

\* _shutdown(signum, frame): self.running = False and HTTPClient.stop()
RouterShutdown ==
    /\ mcp_running
    /\ mcp_pc # "stopped"
    /\ mcp_running' = FALSE
    /\ client_stop' = (client_stop \/ client_pc # "none")
    /\ UNCHANGED <<mcp_pc, client_pc, client_ready, mcp_requests, published,
                   handler_pc, cur, consumed, mcp_responses>>

\* the request in flight, if any, is marked as having lost its connection
MarkStale ==
    IF handler_pc = "call"
    THEN [consumed EXCEPT ![cur].stale = TRUE]
    ELSE consumed

\* client_wrapper: await asyncio.sleep(0.1); self._client_ready.set(); then
\* HTTPClient.start() begins to connect the transport
ClientReadySet ==
    /\ client_pc = "init"
    /\ client_ready' = TRUE
    /\ client_pc' = "connect"
    /\ UNCHANGED <<mcp_running, mcp_pc, client_stop, mcp_requests, published,
                   handler_pc, cur, consumed, mcp_responses>>

\* HTTPClient.start: the transport is up, self.session = ClientSession(...)
ClientSessionCreated ==
    /\ client_pc = "connect"
    /\ client_pc' = "handshake"
    /\ UNCHANGED <<mcp_running, mcp_pc, client_ready, client_stop, mcp_requests,
                   published, handler_pc, cur, consumed, mcp_responses>>

\* HTTPClient.start: session.initialize() and the listing calls have returned,
\* the client waits on its stop event
ClientInitialized ==
    /\ client_pc = "handshake"
    /\ client_pc' = "serving"
    /\ UNCHANGED <<mcp_running, mcp_pc, client_ready, client_stop, mcp_requests,
                   published, handler_pc, cur, consumed, mcp_responses>>

\* HTTPClient.start: any exception is caught and logged; finally self.session =
\* None; client_wrapper's finally clears the ready event
ClientFail ==
    /\ client_pc \in {"connect", "handshake", "serving"}
    /\ client_pc' = "ended"
    /\ client_ready' = FALSE
    /\ consumed' = MarkStale
    /\ UNCHANGED <<mcp_running, mcp_pc, client_stop, mcp_requests, published,
                   handler_pc, cur, mcp_responses>>

\* HTTPClient.start: self._stop_event.wait() returns after stop()
ClientStopped ==
    /\ client_pc = "serving"
    /\ client_stop
    /\ client_pc' = "ended"
    /\ client_ready' = FALSE
    /\ consumed' = MarkStale
    /\ UNCHANGED <<mcp_running, mcp_pc, client_stop, mcp_requests, published,
                   handler_pc, cur, mcp_responses>>

\* process_redis_messages: a message is taken from the subscription and
\* mcp_client_handle_request starts to wait for the ready event
HandlerConsume ==
    /\ handler_pc = "poll"
    /\ mcp_running
    /\ mcp_requests # <<>>
    /\ consumed' = Append(consumed, [id |-> Head(mcp_requests).id,
                                     method |-> Head(mcp_requests).method,
                                     during |-> client_pc,
                                     executed |-> "no",
                                     stale |-> FALSE,
                                     fate |-> "pending"])
    /\ cur' = Len(consumed) + 1
    /\ mcp_requests' = Tail(mcp_requests)
    /\ handler_pc' = "wait_ready"
    /\ UNCHANGED <<mcp_running, mcp_pc, client_pc, client_ready, client_stop,
                   published, mcp_responses>>

\* process_redis_messages: while self.running is false
HandlerDone ==
    /\ handler_pc = "poll"
    /\ ~mcp_running
    /\ handler_pc' = "done"
    /\ UNCHANGED <<mcp_running, mcp_pc, client_pc, client_ready, client_stop,
                   mcp_requests, published, cur, consumed, mcp_responses>>

\* the request has met its end without a call to the session
Settle(fate) ==
    /\ consumed' = [consumed EXCEPT ![cur].fate = fate, ![cur].executed = client_pc]
    /\ handler_pc' = "poll"
    /\ UNCHANGED <<mcp_running, mcp_pc, client_pc, client_ready, client_stop,
                   mcp_requests, published, cur, mcp_responses>>

\* the ready event is set: HTTPClient.handle_request(data).  Without a session
\* it raises RuntimeError; request["id"] of a message without id raises KeyError
\* and the except clause then fails on the unbound correlation_id; an unknown
\* method raises ValueError, for which an error response is returned; each of
\* these is logged by the caller and nothing is published.  Otherwise the
\* session call is awaited.
HandlerReady ==
    /\ handler_pc = "wait_ready"
    /\ client_ready
    /\ IF ~SessionSet THEN Settle("not_connected")
       ELSE IF consumed[cur].id = "missing" THEN Settle("raised")
       ELSE IF consumed[cur].method = "other" THEN Settle("error_returned")
       ELSE /\ handler_pc' = "call"
            /\ consumed' = [consumed EXCEPT ![cur].executed = client_pc]
            /\ UNCHANGED <<mcp_running, mcp_pc, client_pc, client_ready, client_stop,
                           mcp_requests, published, cur, mcp_responses>>

\* asyncio.wait_for(self._client_ready.wait(), timeout=5.0) expires: the error
\* is logged and the request handler returns.  The 0.1 s sleep that precedes
\* the first set() is shorter than the deadline.
HandlerTimeout ==
    /\ handler_pc = "wait_ready"
    /\ ~client_ready
    /\ client_pc # "init"
    /\ Settle("not_ready")

\* mutant of ResponseId: the id of the error returned without a redis client
ResponseIdNone(req) == "null"

\* wrapped_response["id"] = correlation_id = request["id"]
ResponseId(req) == req.id

\* the session call returns: the wrapped response is published on mcp_responses
HandlerCallOk ==
    /\ handler_pc = "call"
    /\ SessionSet
    /\ mcp_responses' = Append(mcp_responses, [id |-> ResponseId(consumed[cur]),
                                               kind |-> "result",
                                               request |-> cur])
    /\ consumed' = [consumed EXCEPT ![cur].fate = "published"]
    /\ handler_pc' = "poll"
    /\ UNCHANGED <<mcp_running, mcp_pc, client_pc, client_ready, client_stop,
                   mcp_requests, published, cur>>

\* the session call raises (server error, connection closed): the error response
\* is built and returned to the caller, which logs it
HandlerCallFail ==
    /\ handler_pc = "call"
    /\ consumed' = [consumed EXCEPT ![cur].fate = "error_returned"]
    /\ handler_pc' = "poll"
    /\ UNCHANGED <<mcp_running, mcp_pc, client_pc, client_ready, client_stop,
                   mcp_requests, published, cur, mcp_responses>>

RouterNext ==
    \/ \E id \in RequestIds, method \in RequestMethods :
            DispatcherPublish(id, method) /\ UNCHANGED <<sessVars, workerVars, readerVars, superVars, mcpVars, streamVars, handleVars, bridgeVars, publishVars, stdioVars>>
    \/ RouterStart /\ UNCHANGED <<sessVars, workerVars, readerVars, superVars, mcpVars, streamVars, handleVars, bridgeVars, publishVars, stdioVars>>
    \/ RouterExit /\ UNCHANGED <<sessVars, workerVars, readerVars, superVars, mcpVars, streamVars, handleVars, bridgeVars, publishVars, stdioVars>>
    \/ RouterWaitReturn /\ UNCHANGED <<sessVars, workerVars, readerVars, superVars, mcpVars, streamVars, handleVars, bridgeVars, publishVars, stdioVars>>
    \/ RouterShutdown /\ UNCHANGED <<sessVars, workerVars, readerVars, superVars, mcpVars, streamVars, handleVars, bridgeVars, publishVars, stdioVars>>
    \/ ClientReadySet /\ UNCHANGED <<sessVars, workerVars, readerVars, superVars, mcpVars, streamVars, handleVars, bridgeVars, publishVars, stdioVars>>
    \/ ClientSessionCreated /\ UNCHANGED <<sessVars, workerVars, readerVars, superVars, mcpVars, streamVars, handleVars, bridgeVars, publishVars, stdioVars>>
    \/ ClientInitialized /\ UNCHANGED <<sessVars, workerVars, readerVars, superVars, mcpVars, streamVars, handleVars, bridgeVars, publishVars, stdioVars>>
    \/ ClientFail /\ UNCHANGED <<sessVars, workerVars, readerVars, superVars, mcpVars, streamVars, handleVars, bridgeVars, publishVars, stdioVars>>
    \/ ClientStopped /\ UNCHANGED <<sessVars, workerVars, readerVars, superVars, mcpVars, streamVars, handleVars, bridgeVars, publishVars, stdioVars>>
    \/ HandlerConsume /\ UNCHANGED <<sessVars, workerVars, readerVars, superVars, mcpVars, streamVars, handleVars, bridgeVars, publishVars, stdioVars>>
    \/ HandlerDone /\ UNCHANGED <<sessVars, workerVars, readerVars, superVars, mcpVars, streamVars, handleVars, bridgeVars, publishVars, stdioVars>>
    \/ HandlerReady /\ UNCHANGED <<sessVars, workerVars, readerVars, superVars, mcpVars, streamVars, handleVars, bridgeVars, publishVars, stdioVars>>
    \/ HandlerTimeout /\ UNCHANGED <<sessVars, workerVars, readerVars, superVars, mcpVars, streamVars, handleVars, bridgeVars, publishVars, stdioVars>>
    \/ HandlerCallOk /\ UNCHANGED <<sessVars, workerVars, readerVars, superVars, mcpVars, streamVars, handleVars, bridgeVars, publishVars, stdioVars>>
    \/ HandlerCallFail /\ UNCHANGED <<sessVars, workerVars, readerVars, superVars, mcpVars, streamVars, handleVars, bridgeVars, publishVars, stdioVars>>

\* --------------------------------------- external tool client (ftw/mcp)
MaxMcpThreads == 3     \* client threads ever started in one behaviour

McpThreads == 1..MaxMcpThreads
NoThread == 0

McpInit ==
    /\ worker_mcp_client_thread = NoThread
    /\ mcp_shutdown_event = NoThread
    /\ mcp_event_set = [t \in McpThreads |-> FALSE]
    /\ mcp_own_event = [t \in McpThreads |-> NoThread]
    /\ mcp_thread_pc = [t \in McpThreads |-> "unborn"]
    /\ mcp_started = 0
    /\ mcp_ret = [thread |-> NoThread, fresh |-> FALSE]

\* worker_mcp_client_thread is not None and worker_mcp_client_thread.is_alive()
McpAlive ==
    /\ worker_mcp_client_thread # NoThread
    /\ mcp_thread_pc[worker_mcp_client_thread] # "ended"

\* worker_start_mcp_client: "Client already running, reusing existing connection"
McpStartReuse ==
    /\ McpAlive
    /\ mcp_ret' = [thread |-> worker_mcp_client_thread, fresh |-> FALSE]
    /\ UNCHANGED <<worker_mcp_client_thread, mcp_shutdown_event, mcp_event_set,
                   mcp_own_event, mcp_thread_pc, mcp_started>>

\* worker_start_mcp_client: a new Event is stored in the global, a new daemon
\* thread is started and stored
McpStartNew ==
    /\ ~McpAlive
    /\ mcp_started < MaxMcpThreads
    /\ LET t == mcp_started + 1 IN
        /\ mcp_started' = t
        /\ mcp_shutdown_event' = t
        /\ worker_mcp_client_thread' = t
        /\ mcp_thread_pc' = [mcp_thread_pc EXCEPT ![t] = "starting"]
        /\ mcp_ret' = [thread |-> t, fresh |-> TRUE]
    /\ UNCHANGED <<mcp_event_set, mcp_own_event>>

\* worker_shutdown_mcp_client_thread: the event is set and the global thread
\* reference is dropped; the thread is not joined
McpShutdown ==
    /\ mcp_shutdown_event # NoThread
    /\ mcp_event_set' = [mcp_event_set EXCEPT ![mcp_shutdown_event] = TRUE]
    /\ worker_mcp_client_thread' = NoThread
    /\ UNCHANGED <<mcp_shutdown_event, mcp_own_event, mcp_thread_pc, mcp_started,
                   mcp_ret>>

\* run_async_mcp_client: run_mcp_client(shutdown_event) reads the global when
\* the thread starts to run
McpThreadBegin(t) ==
    /\ mcp_thread_pc[t] = "starting"
    /\ mcp_own_event' = [mcp_own_event EXCEPT ![t] = mcp_shutdown_event]
    /\ mcp_thread_pc' = [mcp_thread_pc EXCEPT ![t] = "loop"]
    /\ UNCHANGED <<worker_mcp_client_thread, mcp_shutdown_event, mcp_event_set,
                   mcp_started, mcp_ret>>

\* main: while not shutdown_event.is_set()
McpThreadLoop(t) ==
    /\ mcp_thread_pc[t] = "loop"
    /\ mcp_thread_pc' = [mcp_thread_pc EXCEPT ![t] =
            IF mcp_event_set[mcp_own_event[t]] THEN "ended" ELSE "connecting"]
    /\ UNCHANGED <<worker_mcp_client_thread, mcp_shutdown_event, mcp_event_set,
                   mcp_own_event, mcp_started, mcp_ret>>

\* main: stdio_client and ClientSession entered, initialize and list_tools done
McpThreadConnected(t) ==
    /\ mcp_thread_pc[t] = "connecting"
    /\ mcp_thread_pc' = [mcp_thread_pc EXCEPT ![t] = "connected"]
    /\ UNCHANGED <<worker_mcp_client_thread, mcp_shutdown_event, mcp_event_set,
                   mcp_own_event, mcp_started, mcp_ret>>

\* main: the connection fails or is lost; sleep 5 s unless shutdown was requested
McpThreadLost(t) ==
    /\ mcp_thread_pc[t] \in {"connecting", "connected"}
    /\ mcp_thread_pc' = [mcp_thread_pc EXCEPT ![t] =
            IF mcp_event_set[mcp_own_event[t]] THEN "ended" ELSE "backoff"]
    /\ UNCHANGED <<worker_mcp_client_thread, mcp_shutdown_event, mcp_event_set,
                   mcp_own_event, mcp_started, mcp_ret>>

\* main: the keep-alive loop (sleep 1 s) sees the event set; the contexts are
\* left and the outer loop breaks
McpThreadSeesShutdown(t) ==
    /\ mcp_thread_pc[t] = "connected"
    /\ mcp_event_set[mcp_own_event[t]]
    /\ mcp_thread_pc' = [mcp_thread_pc EXCEPT ![t] = "ended"]
    /\ UNCHANGED <<worker_mcp_client_thread, mcp_shutdown_event, mcp_event_set,
                   mcp_own_event, mcp_started, mcp_ret>>

\* main: the reconnect sleep is over
McpThreadBackoffDone(t) ==
    /\ mcp_thread_pc[t] = "backoff"
    /\ mcp_thread_pc' = [mcp_thread_pc EXCEPT ![t] = "loop"]
    /\ UNCHANGED <<worker_mcp_client_thread, mcp_shutdown_event, mcp_event_set,
                   mcp_own_event, mcp_started, mcp_ret>>

McpNext ==
    \/ McpStartReuse /\ UNCHANGED <<sessVars, workerVars, readerVars, superVars, routerVars, streamVars, handleVars, bridgeVars, publishVars, stdioVars>>
    \/ McpStartNew /\ UNCHANGED <<sessVars, workerVars, readerVars, superVars, routerVars, streamVars, handleVars, bridgeVars, publishVars, stdioVars>>
    \/ McpShutdown /\ UNCHANGED <<sessVars, workerVars, readerVars, superVars, routerVars, streamVars, handleVars, bridgeVars, publishVars, stdioVars>>
    \/ \E t \in McpThreads :
            McpThreadBegin(t) /\ UNCHANGED <<sessVars, workerVars, readerVars, superVars, routerVars, streamVars, handleVars, bridgeVars, publishVars, stdioVars>>
    \/ \E t \in McpThreads :
            McpThreadLoop(t) /\ UNCHANGED <<sessVars, workerVars, readerVars, superVars, routerVars, streamVars, handleVars, bridgeVars, publishVars, stdioVars>>
    \/ \E t \in McpThreads :
            McpThreadConnected(t) /\ UNCHANGED <<sessVars, workerVars, readerVars, superVars, routerVars, streamVars, handleVars, bridgeVars, publishVars, stdioVars>>
    \/ \E t \in McpThreads :
            McpThreadLost(t) /\ UNCHANGED <<sessVars, workerVars, readerVars, superVars, routerVars, streamVars, handleVars, bridgeVars, publishVars, stdioVars>>
    \/ \E t \in McpThreads :
            McpThreadSeesShutdown(t) /\ UNCHANGED <<sessVars, workerVars, readerVars, superVars, routerVars, streamVars, handleVars, bridgeVars, publishVars, stdioVars>>
    \/ \E t \in McpThreads :
            McpThreadBackoffDone(t) /\ UNCHANGED <<sessVars, workerVars, readerVars, superVars, routerVars, streamVars, handleVars, bridgeVars, publishVars, stdioVars>>

\* ------------------------------------------- one session: frames in and out
\* open_conversation_websocket for a single backing unit, with the frames it
\* receives and the messages it sends
MaxFrames == 3         \* frames the peer sends on one connection

Contents == {"x", "y"}
NoContent == "None"

\* an inbound text frame: a close instruction, a prompt query with
\* data.content, a JSON object of another type, a prompt_query object without
\* its data member, a text that is not JSON
InFrames ==
    [kind : {"prompt_query"}, content : Contents]
        \cup [kind : {"close", "unknown_type", "missing_fields", "not_json"},
              content : {NoContent}]

\* positions in which the websocket is open
WsOpenStates == {"greet", "loop", "recv", "respond", "closing"}

\* the Event has not been set
NotClosed == [set |-> FALSE, received |-> 0, sent |-> 0]

StreamInit ==
    /\ ws_pc = "idle"
    /\ ws_content = NoContent
    /\ ws_event = FALSE
    /\ ws_inbox = <<>>
    /\ ws_received = <<>>
    /\ ws_sent = <<>>
    /\ ws_peer_sent = 0
    /\ ws_exit = "none"
    /\ ws_at_close = NotClosed

\* AGENT_REGISTRY["generate_text"](content) wrapped as
\* {"type": "prompt_response", "content": response}
PromptResponse(c) == <<"prompt_response", c>>

\* mutant of SendAppend: the message overtakes the ones sent before
SendPrepend(out, msg) == <<msg>> \o out

\* await websocket.send(json.dumps(message)): messages leave in call order
SendAppend(out, msg) == Append(out, msg)

\* mutant of HasInitial: the initial content is never answered
HasInitialNever(c) == FALSE

\* if content is not None
HasInitial(c) == c # NoContent

\* start_conversation_thread(key, content) launches the unit
WsLaunch(c) ==
    /\ ws_pc = "idle"
    /\ ws_pc' = "connect"
    /\ ws_content' = c
    /\ UNCHANGED <<ws_event, ws_inbox, ws_received, ws_sent, ws_peer_sent, ws_exit>>
    /\ UNCHANGED ws_at_close

\* websockets.connect succeeds
WsConnectOk ==
    /\ ws_pc = "connect"
    /\ ws_pc' = IF HasInitial(ws_content) THEN "greet" ELSE "loop"
    /\ UNCHANGED <<ws_content, ws_event, ws_inbox, ws_received, ws_sent,
                   ws_peer_sent, ws_exit>>
    /\ UNCHANGED ws_at_close

\* websockets.connect raises: except Exception, finally
WsConnectFail ==
    /\ ws_pc = "connect"
    /\ ws_pc' = "ended"
    /\ ws_exit' = "connect_failed"
    /\ UNCHANGED <<ws_content, ws_event, ws_inbox, ws_received, ws_sent, ws_peer_sent>>
    /\ UNCHANGED ws_at_close

\* respond_to_prompt(content) before the loop; ok = handler and send succeed
WsGreet(ok) ==
    /\ ws_pc = "greet"
    /\ IF ok
       THEN /\ ws_sent' = SendAppend(ws_sent, PromptResponse(ws_content))
            /\ ws_pc' = "loop"
            /\ UNCHANGED ws_exit
       ELSE /\ ws_pc' = "ended"
            /\ ws_exit' = "handler_failed"
            /\ UNCHANGED ws_sent
    /\ UNCHANGED <<ws_content, ws_event, ws_inbox, ws_received, ws_peer_sent>>
    /\ UNCHANGED ws_at_close

\* mutant of LoopGoesOn: the loop does not test the Event
LoopGoesOnRegardless(e) == TRUE

\* while not shutdown_event.is_set()
LoopGoesOn(e) == ~e

\* the loop test, before each receive
WsLoopCheck ==
    /\ ws_pc = "loop"
    /\ ws_pc' = IF LoopGoesOn(ws_event) THEN "recv" ELSE "closing"
    /\ ws_exit' = IF LoopGoesOn(ws_event) THEN ws_exit ELSE "shutdown"
    /\ UNCHANGED <<ws_content, ws_event, ws_inbox, ws_received, ws_sent, ws_peer_sent>>
    /\ UNCHANGED ws_at_close

\* asyncio.TimeoutError: no frame within 10 s
WsRecvTimeout ==
    /\ ws_pc = "recv"
    /\ ws_inbox = <<>>
    /\ ws_pc' = "loop"
    /\ UNCHANGED <<ws_content, ws_event, ws_inbox, ws_received, ws_sent,
                   ws_peer_sent, ws_exit>>
    /\ UNCHANGED ws_at_close

\* where a received frame leaves the unit: json.loads, data.get("type"),
\* data["data"]["content"]; JSONDecodeError and KeyError are caught by the outer
\* except Exception only
WsAfterFrame(f) ==
    CASE f.kind = "close" -> "closing"
      [] f.kind = "prompt_query" -> "respond"
      [] f.kind = "unknown_type" -> "loop"
      [] f.kind \in {"missing_fields", "not_json"} -> "ended"

\* the reason recorded when a frame ends the receive loop
WsExitAfterFrame(f) ==
    CASE f.kind = "close" -> "close_frame"
      [] f.kind \in {"missing_fields", "not_json"} -> "frame_error"
      [] OTHER -> ws_exit

\* websocket.recv() returns the oldest frame
WsRecv ==
    /\ ws_pc = "recv"
    /\ ws_inbox # <<>>
    /\ ws_received' = Append(ws_received, Head(ws_inbox))
    /\ ws_inbox' = Tail(ws_inbox)
    /\ ws_pc' = WsAfterFrame(Head(ws_inbox))
    /\ ws_exit' = WsExitAfterFrame(Head(ws_inbox))
    /\ UNCHANGED <<ws_content, ws_event, ws_sent, ws_peer_sent>>
    /\ UNCHANGED ws_at_close

\* respond_to_prompt(data["data"]["content"]); ok = handler and send succeed
WsRespond(ok) ==
    /\ ws_pc = "respond"
    /\ IF ok
       THEN /\ ws_sent' = SendAppend(ws_sent,
                            PromptResponse(ws_received[Len(ws_received)].content))
            /\ ws_pc' = "loop"
            /\ UNCHANGED ws_exit
       ELSE /\ ws_pc' = "ended"
            /\ ws_exit' = "handler_failed"
            /\ UNCHANGED ws_sent
    /\ UNCHANGED <<ws_content, ws_event, ws_inbox, ws_received, ws_peer_sent>>
    /\ UNCHANGED ws_at_close

\* websockets.exceptions.ConnectionClosed in recv: break
WsPeerClosed ==
    /\ ws_pc = "recv"
    /\ ws_inbox = <<>>
    /\ ws_pc' = "closing"
    /\ ws_exit' = "peer_closed"
    /\ UNCHANGED <<ws_content, ws_event, ws_inbox, ws_received, ws_sent, ws_peer_sent>>
    /\ UNCHANGED ws_at_close

\* await websocket.close(), then the finally block
WsCloseSocket ==
    /\ ws_pc = "closing"
    /\ ws_pc' = "ended"
    /\ UNCHANGED <<ws_content, ws_event, ws_inbox, ws_received, ws_sent,
                   ws_peer_sent, ws_exit>>
    /\ UNCHANGED ws_at_close

\* the peer writes a frame on the open connection
WsPeerSend(f) ==
    /\ ws_pc \in WsOpenStates
    /\ ws_peer_sent < MaxFrames
    /\ ws_peer_sent' = ws_peer_sent + 1
    /\ ws_inbox' = Append(ws_inbox, f)
    /\ UNCHANGED <<ws_pc, ws_content, ws_event, ws_received, ws_sent, ws_exit>>
    /\ UNCHANGED ws_at_close

\* shutdown_conversation_thread(key) sets the unit's Event
WsShutdown ==
    /\ ws_pc \notin {"idle", "ended"}
    /\ ~ws_event
    /\ ws_event' = TRUE
    /\ ws_at_close' = [set |-> TRUE, received |-> Len(ws_received), sent |-> Len(ws_sent)]
    /\ UNCHANGED <<ws_pc, ws_content, ws_inbox, ws_received, ws_sent, ws_peer_sent,
                   ws_exit>>

StreamNext ==
    \/ \E c \in Contents \cup {NoContent} :
            WsLaunch(c) /\ UNCHANGED <<sessVars, workerVars, readerVars, superVars, routerVars, mcpVars, handleVars, bridgeVars, publishVars, stdioVars>>
    \/ WsConnectOk /\ UNCHANGED <<sessVars, workerVars, readerVars, superVars, routerVars, mcpVars, handleVars, bridgeVars, publishVars, stdioVars>>
    \/ WsConnectFail /\ UNCHANGED <<sessVars, workerVars, readerVars, superVars, routerVars, mcpVars, handleVars, bridgeVars, publishVars, stdioVars>>
    \/ \E ok \in BOOLEAN :
            WsGreet(ok) /\ UNCHANGED <<sessVars, workerVars, readerVars, superVars, routerVars, mcpVars, handleVars, bridgeVars, publishVars, stdioVars>>
    \/ WsLoopCheck /\ UNCHANGED <<sessVars, workerVars, readerVars, superVars, routerVars, mcpVars, handleVars, bridgeVars, publishVars, stdioVars>>
    \/ WsRecvTimeout /\ UNCHANGED <<sessVars, workerVars, readerVars, superVars, routerVars, mcpVars, handleVars, bridgeVars, publishVars, stdioVars>>
    \/ WsRecv /\ UNCHANGED <<sessVars, workerVars, readerVars, superVars, routerVars, mcpVars, handleVars, bridgeVars, publishVars, stdioVars>>
    \/ \E ok \in BOOLEAN :
            WsRespond(ok) /\ UNCHANGED <<sessVars, workerVars, readerVars, superVars, routerVars, mcpVars, handleVars, bridgeVars, publishVars, stdioVars>>
    \/ WsPeerClosed /\ UNCHANGED <<sessVars, workerVars, readerVars, superVars, routerVars, mcpVars, handleVars, bridgeVars, publishVars, stdioVars>>
    \/ WsCloseSocket /\ UNCHANGED <<sessVars, workerVars, readerVars, superVars, routerVars, mcpVars, handleVars, bridgeVars, publishVars, stdioVars>>
    \/ \E f \in InFrames :
            WsPeerSend(f) /\ UNCHANGED <<sessVars, workerVars, readerVars, superVars, routerVars, mcpVars, handleVars, bridgeVars, publishVars, stdioVars>>
    \/ WsShutdown /\ UNCHANGED <<sessVars, workerVars, readerVars, superVars, routerVars, mcpVars, handleVars, bridgeVars, publishVars, stdioVars>>

\* --------------------------------------- error responses of the request router
\* HTTPClient.handle_request and the not-connected branch of
\* MCPClientProcess.process_mcp_requests, each applied to one request
MaxHandled == 2        \* requests handed to the router functions in one behaviour

InternalError == -32603

HandleRequests == [id : RequestIds, method : RequestMethods]

HrRaised == [kind |-> "raise", code |-> 0, id |-> "null"]

HrError(code, id) == [kind |-> "error", code |-> code, id |-> id]

HrResult(id) == [kind |-> "result", code |-> 0, id |-> id]

\* request.get("id"): None when the member is absent
GetId(req) == IF req.id = "missing" THEN "null" ELSE req.id

\* HTTPClient.handle_request(request).  session: self.session is set; redis:
\* the redis_client the HTTPClient was constructed with; call_ok: the session
\* call returns.  Without a session RuntimeError is raised.  request["id"]
\* raises KeyError for a request without the member, inside the try: the except
\* branch then reads correlation_id, which is unbound, and UnboundLocalError
\* leaves the function.  A method without a branch raises ValueError inside the
\* try.  Without a redis_client the error returned has "id": None.
handle_request(req, session, redis, call_ok) ==
    IF ~session THEN HrRaised
    ELSE IF req.id = "missing" THEN HrRaised
    ELSE IF req.method = "other" \/ ~call_ok THEN HrError(InternalError, req.id)
    ELSE IF redis = "none" THEN HrError(MethodNotFound, "null")
    ELSE HrResult(ResponseId(req))

\* the else branch of process_mcp_requests: the client is not running, the
\* error "MCP client not connected" is published with request.get("id")
NotConnectedResponse(req) == HrError(InternalError, GetId(req))

HandleInit == hr_log = <<>>

\* one call of HTTPClient.handle_request
HandleRequest(req, session, redis, call_ok) ==
    /\ Len(hr_log) < MaxHandled
    /\ hr_log' = Append(hr_log, [source |-> "http", request |-> req,
                                 redis |-> redis,
                                 response |-> handle_request(req, session, redis, call_ok)])

\* one request taken from the queue while the client is not running
ProcessNotConnected(req) ==
    /\ Len(hr_log) < MaxHandled
    /\ hr_log' = Append(hr_log, [source |-> "stdio", request |-> req,
                                 redis |-> "client",
                                 response |-> NotConnectedResponse(req)])

HandleNext ==
    \/ \E req \in HandleRequests, session \in BOOLEAN, redis \in {"none", "client"},
          call_ok \in BOOLEAN :
            HandleRequest(req, session, redis, call_ok) /\ UNCHANGED <<sessVars, workerVars, readerVars, superVars, routerVars, mcpVars, streamVars, bridgeVars, publishVars, stdioVars>>
    \/ \E req \in HandleRequests :
            ProcessNotConnected(req) /\ UNCHANGED <<sessVars, workerVars, readerVars, superVars, routerVars, mcpVars, streamVars, bridgeVars, publishVars, stdioVars>>

\* ------------------------------------------------------------ PubSub Bridge
\* RedisClient.publish, RedisClient.get_pubsub and PubSubWrapper over one Redis
\* server.  No component of the repository calls PubSubWrapper.unsubscribe.
MaxPublished == 1      \* publish calls in one behaviour

Clients == {"p1", "p2"}          \* RedisClient instances, one per process

\* the components that ask a client for a subscriber handle: two of them share
\* the client p1
Subscribers == {"s1", "s2", "s3"}

\* the RedisClient a component calls get_pubsub on
Owner(s) == IF s = "s3" THEN "p2" ELSE "p1"

Channels == {"requests", "other"}

\* Python values handed to publish: tagged by their Python type
PyValues ==
    {[t |-> "int", s |-> "1"], [t |-> "str", s |-> "1"], [t |-> "dict", s |-> "k"],
     [t |-> "tuple", s |-> "1"], [t |-> "object", s |-> "k"]}

\* the values that are JSON values: number, string, null, array, object with
\* string keys
JsonPayloads == {v \in PyValues : v.t \in {"int", "str", "none", "list", "dict"}}

\* a text on the wire that is no JSON, written by a publisher that is not this
\* client
RawText == [t |-> "rawtext", s |-> "x"]

\* json.dumps(data, default=str): the JSON text, tagged by its JSON type.  A
\* tuple is written as an array; a value json cannot encode is written as the
\* string str(value)
_serialize(v) ==
    CASE v.t = "int" -> [j |-> "number", s |-> v.s]
      [] v.t = "str" -> [j |-> "string", s |-> v.s]
      [] v.t = "none" -> [j |-> "null", s |-> ""]
      [] v.t \in {"list", "tuple"} -> [j |-> "array", s |-> v.s]
      [] v.t = "dict" -> [j |-> "object", s |-> v.s]
      [] v.t = "object" -> [j |-> "string", s |-> v.s]

\* mutant of JsonLoads: the text is handed on as a Python string
JsonLoadsRaw(w) == [t |-> "str", s |-> w.s]

\* json.loads(message['data']) for a text that is JSON
JsonLoads(w) ==
    CASE w.j = "number" -> [t |-> "int", s |-> w.s]
      [] w.j = "string" -> [t |-> "str", s |-> w.s]
      [] w.j = "null" -> [t |-> "none", s |-> ""]
      [] w.j = "array" -> [t |-> "list", s |-> w.s]
      [] w.j = "object" -> [t |-> "dict", s |-> w.s]

\* mutant of OnDecodeFailure: the ValueError of json.loads leaves get_message
OnDecodeFailureRaises(w) == [t |-> "exception", s |-> ""]

\* except (TypeError, ValueError): pass -- message['data'] stays the str read
\* from the connection
OnDecodeFailure(w) == [t |-> "str", s |-> w.s]

NoValue == [t |-> "absent", s |-> ""]

\* get_message returned None to component s
Nothing(s) ==
    [by |-> s, type |-> "nothing", channel |-> "", data |-> NoValue, orig |-> NoValue]

BridgeInit ==
    /\ bs_handle = [c \in Clients |-> FALSE]
    /\ bs_subs = [c \in Clients |-> {}]
    /\ bs_inbox = [c \in Clients |-> <<>>]
    /\ bs_last = Nothing("none")
    /\ bs_published = 0
    /\ bs_got = [s \in Subscribers |-> FALSE]
    /\ bs_asked = [s \in Subscribers |-> {}]
    /\ bs_due = [s \in Subscribers |-> {}]
    /\ bs_seen = [s \in Subscribers |-> <<>>]

\* get_pubsub() by component s: the client's one PubSubWrapper, created on the
\* first call and returned by every later one
GetPubsub(s) ==
    /\ ~bs_got[s]
    /\ bs_got' = [bs_got EXCEPT ![s] = TRUE]
    /\ bs_handle' = [bs_handle EXCEPT ![Owner(s)] = TRUE]
    /\ UNCHANGED <<bs_subs, bs_inbox, bs_last, bs_published, bs_asked, bs_due, bs_seen>>

\* the confirmations the server writes for one SUBSCRIBE of the channels chs,
\* in the order of the channel list
Confirmations(chs) ==
    [i \in 1..Len(SelectSeq(<<"requests", "other">>, LAMBDA c : c \in chs)) |->
        [type |-> "subscribe",
         channel |-> SelectSeq(<<"requests", "other">>, LAMBDA c : c \in chs)[i],
         wire |-> [j |-> "number", s |-> "1"], orig |-> NoValue, n |-> 0]]

\* PubSubWrapper.subscribe(chs) by component s on the handle it was given, once
\* with its channel list as in every setup_pubsub: the server registers the
\* subscriptions of the handle's connection and writes the confirmations to it
Subscribe(s, chs) ==
    /\ bs_got[s]
    /\ bs_asked[s] = {}
    /\ bs_asked' = [bs_asked EXCEPT ![s] = chs]
    /\ bs_subs' = [bs_subs EXCEPT ![Owner(s)] = @ \cup chs]
    /\ bs_inbox' = [bs_inbox EXCEPT ![Owner(s)] = @ \o Confirmations(chs)]
    /\ UNCHANGED <<bs_handle, bs_last, bs_published, bs_got, bs_due, bs_seen>>

\* mutant of Receivers: the server writes the message to every connection
ReceiversAll(ch) == Clients

\* the connections the server writes a message on ch to
Receivers(ch) == {c \in Clients : ch \in bs_subs[c]}

\* the server writes the text w, the n-th published, to the subscribed
\* connections; bs_due notes the components that had subscribed to ch
Distribute(ch, w, v, ok) ==
    /\ bs_published < MaxPublished
    /\ bs_published' = bs_published + 1
    /\ bs_inbox' = [c \in Clients |->
                        IF ok /\ c \in Receivers(ch)
                        THEN Append(bs_inbox[c],
                                    [type |-> "message", channel |-> ch, wire |-> w,
                                     orig |-> v, n |-> bs_published + 1])
                        ELSE bs_inbox[c]]
    /\ bs_due' = [s \in Subscribers |->
                        IF ok /\ ch \in bs_asked[s]
                        THEN bs_due[s] \cup {bs_published + 1} ELSE bs_due[s]]
    /\ UNCHANGED <<bs_handle, bs_subs, bs_last, bs_got, bs_asked, bs_seen>>

\* publish(ch, v) by any client: _serialize, then PUBLISH.  ok = the Redis
\* operation succeeds in the end; otherwise safe_redis_operation returns None,
\* publish returns 0 and nothing was published
Publish(ch, v, ok) == Distribute(ch, _serialize(v), v, ok)

\* a publisher that is not a RedisClient writes a text that is no JSON
PublishRaw(ch) == Distribute(ch, [j |-> "invalid", s |-> RawText.s], RawText, TRUE)

\* what get_message hands to its caller s for a message read from the
\* connection: the data of a 'message' is replaced by json.loads of it, and
\* kept when json.loads raises
Delivered(s, m) ==
    [by |-> s, type |-> m.type, channel |-> m.channel,
     data |-> IF m.type = "message"
              THEN IF m.wire.j = "invalid" THEN OnDecodeFailure(m.wire)
                   ELSE JsonLoads(m.wire)
              ELSE [t |-> "int", s |-> m.wire.s],
     orig |-> m.orig]

\* get_message(timeout) by component s with a message waiting on the
\* connection of its handle
PollMessage(s) ==
    /\ bs_got[s]
    /\ bs_inbox[Owner(s)] # <<>>
    /\ bs_last' = Delivered(s, Head(bs_inbox[Owner(s)]))
    /\ bs_seen' = [bs_seen EXCEPT ![s] =
                        IF Head(bs_inbox[Owner(s)]).type = "message"
                        THEN Append(@, Head(bs_inbox[Owner(s)]).n) ELSE @]
    /\ bs_inbox' = [bs_inbox EXCEPT ![Owner(s)] = Tail(@)]
    /\ UNCHANGED <<bs_handle, bs_subs, bs_published, bs_got, bs_asked, bs_due>>

\* get_message(timeout) with nothing on the connection when the timeout expires
PollTimeout(s) ==
    /\ bs_got[s]
    /\ bs_inbox[Owner(s)] = <<>>
    /\ bs_last' = Nothing(s)
    /\ UNCHANGED <<bs_handle, bs_subs, bs_inbox, bs_published, bs_got, bs_asked,
                   bs_due, bs_seen>>

\* self.pubsub.get_message raises (RedisError, or any other Exception): the
\* error is logged and None is returned
PollFail(s) ==
    /\ bs_got[s]
    /\ bs_last' = Nothing(s)
    /\ UNCHANGED <<bs_handle, bs_subs, bs_inbox, bs_published, bs_got, bs_asked,
                   bs_due, bs_seen>>

\* the steps of the bridge with the components S taking part
BridgeStep(S) ==
    \/ \E s \in S :
            GetPubsub(s) /\ UNCHANGED <<sessVars, workerVars, readerVars, superVars, routerVars, mcpVars, streamVars, handleVars, publishVars, stdioVars>>
    \/ \E s \in S, chs \in (SUBSET Channels) \ {{}} :
            Subscribe(s, chs) /\ UNCHANGED <<sessVars, workerVars, readerVars, superVars, routerVars, mcpVars, streamVars, handleVars, publishVars, stdioVars>>
    \/ \E ch \in Channels, v \in PyValues, ok \in BOOLEAN :
            Publish(ch, v, ok) /\ UNCHANGED <<sessVars, workerVars, readerVars, superVars, routerVars, mcpVars, streamVars, handleVars, publishVars, stdioVars>>
    \/ \E ch \in Channels :
            PublishRaw(ch) /\ UNCHANGED <<sessVars, workerVars, readerVars, superVars, routerVars, mcpVars, streamVars, handleVars, publishVars, stdioVars>>
    \/ \E s \in S :
            PollMessage(s) /\ UNCHANGED <<sessVars, workerVars, readerVars, superVars, routerVars, mcpVars, streamVars, handleVars, publishVars, stdioVars>>
    \/ \E s \in S :
            PollTimeout(s) /\ UNCHANGED <<sessVars, workerVars, readerVars, superVars, routerVars, mcpVars, streamVars, handleVars, publishVars, stdioVars>>
    \/ \E s \in S :
            PollFail(s) /\ UNCHANGED <<sessVars, workerVars, readerVars, superVars, routerVars, mcpVars, streamVars, handleVars, publishVars, stdioVars>>

\* one component per client, as in the processes of the repository
BridgeNext == BridgeStep({"s1", "s3"})

\* two components that share one client
SharedNext == BridgeStep({"s1", "s2"})

\* ------------------------------------------------------ RedisClient.publish
\* publish, safe_redis_operation and connect_with_retry, one call at a time
MaxCalls == 2          \* publish calls in one behaviour

MaxRetries == 3        \* max_retries of connect_with_retry

\* how a call of self._client.publish ends: it returns, it raises ConnectionError
\* or another RedisError, or it raises an exception of another class
OperationOutcomes == {"ok", "redis_error", "other_error"}

\* the outcome of the ping of each connection attempt
PingRuns == [1..MaxRetries -> BOOLEAN]

PublishInputs ==
    [serializable : BOOLEAN, first : OperationOutcomes, pings : PingRuns,
     second : OperationOutcomes, receivers : 0..1]

\* connect_with_retry: up to max_retries attempts, the first ping that answers
\* ends the loop; after the last failure RedisConnectionError is raised
connect_with_retry(pings) ==
    IF \E i \in 1..MaxRetries : pings[i] THEN "ok" ELSE "raise"

\* Python's None
None == [none |-> TRUE, n |-> 0]

\* the number of receivers Redis reports
Count(n) == [none |-> FALSE, n |-> n]

\* what safe_redis_operation hands back; attempts counts the calls of
\* self._client.publish, connects the calls of _connect
OpResult(value, attempts, connects, raised) ==
    [value |-> value, attempts |-> attempts, connects |-> connects, raised |-> raised]

\* mutant of OnReconnectError: the exception of the reconnect or of the second
\* attempt leaves safe_redis_operation
OnReconnectErrorRaises(attempts) == OpResult(None, attempts, 1, TRUE)

\* except Exception as reconnect_error: logged, return None
OnReconnectError(attempts) == OpResult(None, attempts, 1, FALSE)

\* safe_redis_operation(_publish_operation).  _publish_operation serializes
\* the message and calls self._client.publish; json.dumps raises TypeError or
\* ValueError for a message it cannot write, before any call to Redis, and the
\* last except clause returns None.  A ConnectionError or RedisError of the
\* first call leads to _connect() and one more call of the operation.
safe_redis_operation(in) ==
    IF ~in.serializable THEN OpResult(None, 0, 0, FALSE)
    ELSE IF in.first = "ok" THEN OpResult(Count(in.receivers), 1, 0, FALSE)
    ELSE IF in.first = "other_error" THEN OpResult(None, 1, 0, FALSE)
    ELSE IF connect_with_retry(in.pings) = "raise" THEN OnReconnectError(1)
    ELSE IF in.second = "ok" THEN OpResult(Count(in.receivers), 2, 1, FALSE)
    ELSE OnReconnectError(2)

\* publish: return result if result is not None else 0
publish(in) ==
    [safe_redis_operation(in) EXCEPT !.value = IF @.none THEN Count(0) ELSE @]

NoCall == [serializable |-> TRUE, first |-> "ok", pings |-> [i \in 1..MaxRetries |-> TRUE],
           second |-> "ok", receivers |-> 0]

PublishInit ==
    /\ pub_calls = 0
    /\ pub_last = [in |-> NoCall, out |-> OpResult(Count(0), 0, 0, FALSE)]

\* one call of RedisClient.publish
PublishCall(in) ==
    /\ pub_calls < MaxCalls
    /\ pub_calls' = pub_calls + 1
    /\ pub_last' = [in |-> in, out |-> publish(in)]

PublishNext ==
    \E in \in PublishInputs :
        PublishCall(in) /\ UNCHANGED <<sessVars, workerVars, readerVars, superVars, routerVars, mcpVars, streamVars, handleVars, bridgeVars, stdioVars>>

\* ----------------------------------------------- MCPClientProcess (stdio)
\* run_mcp_client of processes/mcp_client.py with MCPClient of mcp/client.py.
\* setup_subscriptions has subscribed to mcp_requests before the loop starts.
MaxPending == 2        \* requests published on mcp_requests in one behaviour
MaxClients == 3        \* MCPClients constructed in one behaviour

\* MCPClient.is_running(): not self._stop_event.is_set() and self.session is
\* not None.  self.session is set from the ClientSession construction until
\* the finally block of _run_client; the stop event is set by stop() only,
\* which cancels the task in the same step
is_running == cp_client \in {"handshake", "connected"}

\* the session is established: initialize() has returned
Connected == cp_client = "connected"

StdioInit ==
    /\ cp_running = TRUE
    /\ cp_pc = "loop"
    /\ cp_client = "none"
    /\ cp_stop = FALSE
    /\ cp_pending = 0
    /\ cp_started = 0

\* another process publishes a request on mcp_requests: the server writes it to
\* the subscribed connection
StdioPublish ==
    /\ cp_pending < MaxPending
    /\ cp_pending' = cp_pending + 1
    /\ UNCHANGED <<cp_running, cp_pc, cp_client, cp_stop, cp_started>>

\* while self.running: self._mcp_client = MCPClient(...); await
\* self._mcp_client.start(), which creates the _run_client task and awaits it
StdioStart ==
    /\ cp_pc = "loop"
    /\ cp_running
    /\ cp_started < MaxClients
    /\ cp_started' = cp_started + 1
    /\ cp_client' = "connecting"
    /\ cp_pc' = "start"
    /\ UNCHANGED <<cp_running, cp_stop, cp_pending>>

\* while self.running is false: "MCP client stopped"
StdioExit ==
    /\ cp_pc = "loop"
    /\ ~cp_running
    /\ cp_pc' = "stopped"
    /\ UNCHANGED <<cp_running, cp_client, cp_stop, cp_pending, cp_started>>

\* _run_client: stdio_client has started the server, self.session =
\* ClientSession(read_stream, write_stream)
StdioSessionCreated ==
    /\ cp_client = "connecting"
    /\ cp_client' = "handshake"
    /\ UNCHANGED <<cp_running, cp_pc, cp_stop, cp_pending, cp_started>>

\* _run_client: session.initialize() returns, _handle_notifications loops on
\* asyncio.sleep(0.1) until the stop event is set
StdioInitialized ==
    /\ cp_client = "handshake"
    /\ cp_client' = "connected"
    /\ UNCHANGED <<cp_running, cp_pc, cp_stop, cp_pending, cp_started>>

\* _run_client raises (the server cannot be started, initialize fails, the
\* transport breaks): except Exception: raise; finally self.session = None
StdioClientError ==
    /\ cp_client \in {"connecting", "handshake", "connected"}
    /\ cp_client' = "failed"
    /\ UNCHANGED <<cp_running, cp_pc, cp_stop, cp_pending, cp_started>>

\* await self._client_task re-raises the exception of the task: except
\* Exception in run_mcp_client logs it; finally: stop() finds the task done,
\* self._mcp_client = None
StdioStartRaises ==
    /\ cp_pc = "start"
    /\ cp_client = "failed"
    /\ cp_pc' = "after"
    /\ cp_client' = "none"
    /\ UNCHANGED <<cp_running, cp_stop, cp_pending, cp_started>>

\* _shutdown(signum, frame): self.running = False; if self._mcp_client is set
\* its stop() is scheduled on the loop
StdioShutdown ==
    /\ cp_running
    /\ cp_pc # "stopped"
    /\ cp_running' = FALSE
    /\ cp_stop' = (cp_pc = "start")
    /\ UNCHANGED <<cp_pc, cp_client, cp_pending, cp_started>>

\* MCPClient.stop(): self._stop_event.set() and, the task not being done,
\* self._client_task.cancel(): CancelledError is raised in the task at its
\* await; finally self.session = None
StdioStopRuns ==
    /\ cp_stop
    /\ cp_client \in {"connecting", "handshake", "connected"}
    /\ cp_client' = "cancelled"
    /\ UNCHANGED <<cp_running, cp_pc, cp_stop, cp_pending, cp_started>>

\* await self._client_task raises CancelledError: except
\* asyncio.CancelledError: break
StdioStartCancelled ==
    /\ cp_pc = "start"
    /\ cp_client = "cancelled"
    /\ cp_pc' = "stopped"
    /\ UNCHANGED <<cp_running, cp_client, cp_stop, cp_pending, cp_started>>

\* if self.running: the retry wait begins; else back to the loop test
StdioAfter ==
    /\ cp_pc = "after"
    /\ cp_pc' = IF cp_running THEN "sleeping" ELSE "loop"
    /\ UNCHANGED <<cp_running, cp_client, cp_stop, cp_pending, cp_started>>

\* the retry wait ends: at retry_end with running set the delay is doubled and
\* the loop goes on; with running cleared: break
StdioWake ==
    /\ cp_pc = "sleeping"
    /\ cp_pc' = IF cp_running THEN "loop" ELSE "stopped"
    /\ UNCHANGED <<cp_running, cp_client, cp_stop, cp_pending, cp_started>>

StdioNext ==
    \/ StdioPublish /\ UNCHANGED <<sessVars, workerVars, readerVars, superVars, routerVars, mcpVars, streamVars, handleVars, bridgeVars, publishVars>>
    \/ StdioStart /\ UNCHANGED <<sessVars, workerVars, readerVars, superVars, routerVars, mcpVars, streamVars, handleVars, bridgeVars, publishVars>>
    \/ StdioExit /\ UNCHANGED <<sessVars, workerVars, readerVars, superVars, routerVars, mcpVars, streamVars, handleVars, bridgeVars, publishVars>>
    \/ StdioSessionCreated /\ UNCHANGED <<sessVars, workerVars, readerVars, superVars, routerVars, mcpVars, streamVars, handleVars, bridgeVars, publishVars>>
    \/ StdioInitialized /\ UNCHANGED <<sessVars, workerVars, readerVars, superVars, routerVars, mcpVars, streamVars, handleVars, bridgeVars, publishVars>>
    \/ StdioClientError /\ UNCHANGED <<sessVars, workerVars, readerVars, superVars, routerVars, mcpVars, streamVars, handleVars, bridgeVars, publishVars>>
    \/ StdioStartRaises /\ UNCHANGED <<sessVars, workerVars, readerVars, superVars, routerVars, mcpVars, streamVars, handleVars, bridgeVars, publishVars>>
    \/ StdioShutdown /\ UNCHANGED <<sessVars, workerVars, readerVars, superVars, routerVars, mcpVars, streamVars, handleVars, bridgeVars, publishVars>>
    \/ StdioStopRuns /\ UNCHANGED <<sessVars, workerVars, readerVars, superVars, routerVars, mcpVars, streamVars, handleVars, bridgeVars, publishVars>>
    \/ StdioStartCancelled /\ UNCHANGED <<sessVars, workerVars, readerVars, superVars, routerVars, mcpVars, streamVars, handleVars, bridgeVars, publishVars>>
    \/ StdioAfter /\ UNCHANGED <<sessVars, workerVars, readerVars, superVars, routerVars, mcpVars, streamVars, handleVars, bridgeVars, publishVars>>
    \/ StdioWake /\ UNCHANGED <<sessVars, workerVars, readerVars, superVars, routerVars, mcpVars, streamVars, handleVars, bridgeVars, publishVars>>

vars == <<sessVars, workerVars, readerVars, superVars, routerVars, mcpVars, streamVars,
          handleVars, bridgeVars, publishVars, stdioVars>>

Init == SessInit /\ WorkerInit /\ ReaderInit /\ SuperInit /\ RouterInit /\ McpInit
            /\ StreamInit /\ HandleInit /\ BridgeInit /\ PublishInit /\ StdioInit

SessNext ==
    \/ \E k \in Keys : OpenJoin(k) /\ UNCHANGED <<workerVars, readerVars, superVars, toolVars>>
    \/ \E k \in Keys, b \in BOOLEAN :
            OpenCreate(k, b) /\ UNCHANGED <<workerVars, readerVars, superVars, toolVars>>
    \/ OpenRegister /\ UNCHANGED <<workerVars, readerVars, superVars, toolVars>>
    \/ \E k \in Keys : Close(k) /\ UNCHANGED <<workerVars, readerVars, superVars, toolVars>>
    \/ \E u \in Units : UnitStep(u) /\ UNCHANGED <<workerVars, readerVars, superVars, toolVars>>
    \/ \E u \in Units : PeerStep(u) /\ UNCHANGED <<workerVars, readerVars, superVars, toolVars>>
    \/ StartWorkerThread /\ UNCHANGED <<readerVars, superVars, toolVars>>
    \/ StartWorkerJoin /\ UNCHANGED <<readerVars, superVars, toolVars>>

ReaderSpec == Init /\ [][ReaderNext]_vars

\* asyncio scheduling: the reader coroutine takes every step it can once a line
\* or the end of the body is there.  Nothing is assumed of the server.
ReaderFair ==
    /\ WF_vars(ReaderBreak /\ UNCHANGED <<sessVars, workerVars, superVars, toolVars>>)
    /\ WF_vars(ReaderSkip /\ UNCHANGED <<sessVars, workerVars, superVars, toolVars>>)
    /\ WF_vars(ReaderDiscard /\ UNCHANGED <<sessVars, workerVars, superVars, toolVars>>)
    /\ WF_vars((\E msg \in Payloads, post_ok \in BOOLEAN : ReaderDispatch(msg, post_ok))
                    /\ UNCHANGED <<sessVars, workerVars, superVars, toolVars>>)
    /\ WF_vars(ReaderEof /\ UNCHANGED <<sessVars, workerVars, superVars, toolVars>>)

ReaderLive == Init /\ [][ReaderNext]_vars /\ ReaderFair

SuperSpec == Init /\ [][SuperNext]_vars

\* asyncio scheduling: the supervisor coroutine and the redis task take every
\* step they can.  Nothing is assumed of the remote end or of signals.
SuperFair ==
    /\ WF_vars(SupStartRun /\ UNCHANGED <<sessVars, workerVars, readerVars, toolVars>>)
    /\ WF_vars(SupExit /\ UNCHANGED <<sessVars, workerVars, readerVars, toolVars>>)
    /\ WF_vars(RedisStep /\ UNCHANGED <<sessVars, workerVars, readerVars, toolVars>>)
    /\ WF_vars(SupWaitReturn /\ UNCHANGED <<sessVars, workerVars, readerVars, toolVars>>)
    /\ WF_vars(SupAfter /\ UNCHANGED <<sessVars, workerVars, readerVars, toolVars>>)
    /\ WF_vars(SupWake /\ UNCHANGED <<sessVars, workerVars, readerVars, toolVars>>)

SuperLive == Init /\ [][SuperNext]_vars /\ SuperFair

SessSpec == Init /\ [][SessNext]_vars

RouterSpec == Init /\ [][RouterNext]_vars

\* asyncio scheduling: the supervisor coroutine, the client wrapper and the
\* redis task take every step they can.  Nothing is assumed of the MCP server,
\* of the publishers or of signals.
RouterFair ==
    /\ WF_vars(RouterStart /\ UNCHANGED <<sessVars, workerVars, readerVars, superVars, mcpVars, streamVars, handleVars, bridgeVars, publishVars, stdioVars>>)
    /\ WF_vars(RouterExit /\ UNCHANGED <<sessVars, workerVars, readerVars, superVars, mcpVars, streamVars, handleVars, bridgeVars, publishVars, stdioVars>>)
    /\ WF_vars(RouterWaitReturn /\ UNCHANGED <<sessVars, workerVars, readerVars, superVars, mcpVars, streamVars, handleVars, bridgeVars, publishVars, stdioVars>>)
    /\ WF_vars(ClientReadySet /\ UNCHANGED <<sessVars, workerVars, readerVars, superVars, mcpVars, streamVars, handleVars, bridgeVars, publishVars, stdioVars>>)
    /\ WF_vars(ClientStopped /\ UNCHANGED <<sessVars, workerVars, readerVars, superVars, mcpVars, streamVars, handleVars, bridgeVars, publishVars, stdioVars>>)
    /\ WF_vars(HandlerDone /\ UNCHANGED <<sessVars, workerVars, readerVars, superVars, mcpVars, streamVars, handleVars, bridgeVars, publishVars, stdioVars>>)
    /\ WF_vars(HandlerReady /\ UNCHANGED <<sessVars, workerVars, readerVars, superVars, mcpVars, streamVars, handleVars, bridgeVars, publishVars, stdioVars>>)
    /\ WF_vars(HandlerTimeout /\ UNCHANGED <<sessVars, workerVars, readerVars, superVars, mcpVars, streamVars, handleVars, bridgeVars, publishVars, stdioVars>>)

RouterLive == Init /\ [][RouterNext]_vars /\ RouterFair

McpSpec == Init /\ [][McpNext]_vars

StreamSpec == Init /\ [][StreamNext]_vars

HandleSpec == Init /\ [][HandleNext]_vars

BridgeSpec == Init /\ [][BridgeNext]_vars

SharedSpec == Init /\ [][SharedNext]_vars

PublishSpec == Init /\ [][PublishNext]_vars

StdioSpec == Init /\ [][StdioNext]_vars

\* asyncio scheduling: the supervisor coroutine and a scheduled stop() take
\* every step they can.  Nothing is assumed of the MCP server, of the
\* publishers or of signals.
StdioFair ==
    /\ WF_vars(StdioStart /\ UNCHANGED <<sessVars, workerVars, readerVars, superVars, routerVars, mcpVars, streamVars, handleVars, bridgeVars, publishVars>>)
    /\ WF_vars(StdioExit /\ UNCHANGED <<sessVars, workerVars, readerVars, superVars, routerVars, mcpVars, streamVars, handleVars, bridgeVars, publishVars>>)
    /\ WF_vars(StdioStartRaises /\ UNCHANGED <<sessVars, workerVars, readerVars, superVars, routerVars, mcpVars, streamVars, handleVars, bridgeVars, publishVars>>)
    /\ WF_vars(StdioStopRuns /\ UNCHANGED <<sessVars, workerVars, readerVars, superVars, routerVars, mcpVars, streamVars, handleVars, bridgeVars, publishVars>>)
    /\ WF_vars(StdioStartCancelled /\ UNCHANGED <<sessVars, workerVars, readerVars, superVars, routerVars, mcpVars, streamVars, handleVars, bridgeVars, publishVars>>)
    /\ WF_vars(StdioAfter /\ UNCHANGED <<sessVars, workerVars, readerVars, superVars, routerVars, mcpVars, streamVars, handleVars, bridgeVars, publishVars>>)
    /\ WF_vars(StdioWake /\ UNCHANGED <<sessVars, workerVars, readerVars, superVars, routerVars, mcpVars, streamVars, handleVars, bridgeVars, publishVars>>)

StdioLive == Init /\ [][StdioNext]_vars /\ StdioFair

\* Thread scheduling: every thread that can take a step of its own eventually
\* takes it, and a thread waiting for thread_lock eventually gets it.  Nothing
\* is assumed of the peer or of the callers of open and close.
SessFair ==
    /\ WF_vars(OpenRegister /\ UNCHANGED <<workerVars, readerVars, superVars, toolVars>>)
    /\ \A u \in Units :
        /\ WF_vars((ConnectOk(u) \/ (\E ok \in BOOLEAN : Greet(u, ok)) \/ LoopCheck(u)
                      \/ RecvTimeout(u) \/ CloseSocket(u))
                        /\ UNCHANGED <<workerVars, readerVars, superVars, toolVars>>)
        /\ SF_vars(Cleanup(u) /\ UNCHANGED <<workerVars, readerVars, superVars, toolVars>>)

SessLive == Init /\ [][SessNext]_vars /\ SessFair

\* ---------------------------------------------------------------- claims

\* C1: in every reachable state each session key has at most one backing unit
\* whose duplex connection is being established or is live.
C1_AtMostOneActivePerKey ==
    \A k \in Keys : Cardinality({u \in Units : ukey[u] = k /\ upc[u] \in ConnStates}) <= 1

\* a key re-opened after its first unit finished: the second unit is in its
\* receive loop and an open has just joined it
C1_Witness ==
    \E u, v \in Units :
        /\ u # v /\ ukey[u] = ukey[v]
        /\ upc[u] = "done" /\ upc[v] = "recv"
        /\ open_ret.unit = v /\ ~open_ret.fresh

\* C2: an open(key) that runs while the unit of an earlier open(key) is still
\* establishing its connection launches no second thread: the establishing unit
\* is the registered one whenever the lock is free, the call returns that
\* handle, and it is the only thread of the key that has not finished.
C2_JoinWhileEstablishing ==
    /\ \A u \in Units :
        (upc[u] = "connect" /\ thread_lock = NoUnit) => conversation_threads[ukey[u]] = u
    /\ \A u \in Units :
        (open_ret.unit = u /\ ~open_ret.fresh /\ upc[u] = "connect") =>
            /\ open_ret.key = ukey[u]
            /\ conversation_threads[ukey[u]] = u
            /\ {v \in Units : ukey[v] = ukey[u] /\ upc[v] \notin {"unborn", "done"}} = {u}

\* the second open has returned the handle of a unit that is still connecting
C2_Witness ==
    \E u \in Units : open_ret.unit = u /\ ~open_ret.fresh /\ upc[u] = "connect"

\* C3: once close(key) has set the signal of a live unit, the unit leaves its
\* receive loop, closes the connection and removes its registry entry, with no
\* step of the peer needed (the peer's steps carry no fairness).
C3_CloseLeadsToRemoval ==
    \A u \in Units :
        (event_set[u] /\ upc[u] \in ConnStates)
            ~> (upc[u] = "done" /\ conversation_threads[ukey[u]] # u)

\* close(key) arrived while the unit was waiting in its bounded receive
C3_Witness ==
    \E u \in Units : event_set[u] /\ upc[u] = "recv" /\ conversation_threads[ukey[u]] = u

\* C4 as claimed: after close(key) on an active session, every later open(key)
\* creates a fresh unit, wherever it falls relative to the unit's cleanup.
C4_OpenAfterCloseIsFresh ==
    (open_ret.unit # NoUnit /\ open_ret.closed) => open_ret.fresh

\* C4 amended: after close(key) on an active session, an open(key) that runs
\* after the closing unit has finished its cleanup creates a fresh unit whose
\* signal is unset; an open(key) that runs before it joins the closing unit.
C4_OpenAfterCleanupIsFresh ==
    (open_ret.unit # NoUnit /\ open_ret.closed) =>
        IF open_ret.prevDone
        THEN open_ret.fresh /\ upc[open_ret.unit] # "unborn"
        ELSE ~open_ret.fresh /\ shutdown_events[open_ret.key] = open_ret.unit

\* the open that follows close and cleanup returned a new unit, now connecting
C4_Witness ==
    /\ open_ret.unit # NoUnit /\ open_ret.closed /\ open_ret.prevDone /\ open_ret.fresh
    /\ upc[open_ret.unit] = "connect" /\ ~event_set[open_ret.unit]

\* C5: once a unit has terminated, no registry entry refers to it, in the
\* conversation registry and in the worker registry.
C5_NoEntryForTerminatedUnit ==
    /\ \A u \in Units : upc[u] = "done" => conversation_threads[ukey[u]] # u
    /\ wpc = "dead" => worker_threads = "absent"

\* the conversation half of C5
ConversationEntryRemoved ==
    \A u \in Units : upc[u] = "done" => conversation_threads[ukey[u]] # u

\* C6: as long as no stop is requested and the transport does not fail, the
\* reader has invoked the dispatcher once for every valid-JSON data line it has
\* taken, in stream order, has discarded every malformed one, and ends only
\* when the stream ends, with every line taken.
C6_ExactlyKDispatched ==
    (~stop_event /\ rpc \in {"reading", "ended_clean", "ended_dispatch"}) =>
        /\ rpc # "ended_dispatch"
        /\ dispatched = PositionsOf("valid", pos)
        /\ discarded = Len(PositionsOf("bad", pos))
        /\ rpc = "ended_clean" => pos = Len(stream)

\* what remains of C6 when no dispatcher invocation raises
ReaderCountsAgree ==
    (~stop_event /\ rpc \in {"reading", "ended_clean"}) =>
        /\ dispatched = PositionsOf("valid", pos)
        /\ discarded = Len(PositionsOf("bad", pos))
        /\ rpc = "ended_clean" => pos = Len(stream)

\* C7: the dispatcher never raises: for every control message (a mapping) it
\* yields a result or an error response, and the response carries the id of the
\* message.
C7_DispatchNeverRaises ==
    last_msg.shape = "map" =>
        /\ last_out.kind \in {"result", "error"}
        /\ last_out.id = last_msg.id

\* C8: whenever a run of the reader has ended, by an exception or by a clean
\* close, while the supervisor is running, a new reader is eventually started
\* (or the supervisor is told to stop or is cancelled).
C8_RunEndLeadsToRetry ==
    \A n \in 1..(MaxAttempts - 1) :
        (attempt = n /\ spc = "wait" /\ event_task \in {"exc", "done"} /\ running)
            ~> (attempt = n + 1 \/ ~running \/ spc = "stopped")

\* the exception half of C8
ExceptionLeadsToRetry ==
    \A n \in 1..(MaxAttempts - 1) :
        (attempt = n /\ spc = "wait" /\ event_task = "exc" /\ running)
            ~> (attempt = n + 1 \/ ~running \/ spc = "stopped")

\* C9 as claimed: after N consecutive failed attempts the delay slept before
\* attempt N+1 is min(floor * 2^N, ceiling).
C9_DelayIsFloorTimesTwoToN ==
    (spc = "sleeping" /\ ~any_success /\ fails >= 1) =>
        slept = Min(RetryFloor * Pow2(fails), MaxDelay)

\* C9 amended: after N consecutive failed attempts since the supervisor
\* started, the delay slept before attempt N+1 is min(floor * 2^(N-1), ceiling).
C9_DelayIsFloorTimesTwoToNMinusOne ==
    (spc = "sleeping" /\ ~any_success /\ fails >= 1) =>
        slept = Min(RetryFloor * Pow2(fails - 1), MaxDelay)

\* the sleep after the eighth failure in a row: the ceiling is in force
C9_Witness ==
    spc = "sleeping" /\ ~any_success /\ fails = 8 /\ slept = MaxDelay

\* C10: the retry sleep that follows a run which dispatched at least one
\* message lasts floor seconds.
C10_DelayResetAfterSuccess ==
    (spc = "sleeping" /\ run_dispatched >= 1) => slept = RetryFloor

\* C11: once stop has been requested (running set to False, or the supervisor
\* cancelled) no further reader is constructed and the supervisor loop
\* terminates; a run that ends in any other way is followed by a new reader.
C11_StopExitsOthersRetry ==
    /\ [][(~running \/ spc = "stopped") => attempt' = attempt]_vars
    /\ (~running ~> spc = "stopped")
    /\ \A n \in 1..(MaxAttempts - 1) :
        (attempt = n /\ spc = "wait" /\ event_task \in {"exc", "done"} /\ running)
            ~> (attempt = n + 1 \/ ~running \/ spc = "stopped")

\* the safety half of C11: after a stop request no reader is constructed
StopConstructsNoReader ==
    [][(~running \/ spc = "stopped") => attempt' = attempt]_vars

\* the termination half of C11, for a run whose reader task has ended
StopLeadsToExitOnceRunEnded ==
    (~running /\ event_task # "running") ~> spc = "stopped"

\* C12: every message published on mcp_responses carries the id of the request
\* it answers; that request was consumed from mcp_requests before, and its id is
\* the id of the control message the dispatcher published.  The response never
\* carries the id of another request, and it lacks an id only if the control
\* message itself carried a null id.
C12_ResponseCarriesRequestId ==
    \A i \in 1..Len(mcp_responses) :
        LET r == mcp_responses[i] IN
            /\ r.request \in 1..Len(consumed)
            /\ r.id = consumed[r.request].id
            /\ r.id = published[r.request]
            /\ r.id # "missing"
            /\ \A j \in 1..Len(consumed) :
                    consumed[j].id # consumed[r.request].id => r.id # consumed[j].id

\* two requests with different ids have both been answered, in order
C12_Witness ==
    /\ Len(mcp_responses) = 2
    /\ mcp_responses[1].id = "a" /\ mcp_responses[1].request = 1
    /\ mcp_responses[2].id = "b" /\ mcp_responses[2].request = 2

\* C13: a request consumed before the client has finished its handshake is not
\* dropped: unless the readiness deadline expires, it is handed to the client
\* only once the client is connected and initialized.
C13_EarlyRequestHeldThenExecuted ==
    \A i \in 1..Len(consumed) :
        (consumed[i].during \in {"init", "connect", "handshake"}
            /\ consumed[i].fate \notin {"pending", "not_ready"})
                => consumed[i].executed = "serving"

\* C14: a request whose wait for the ready event expired is answered on
\* mcp_responses with an error response carrying the request's id.
C14_NotReadyPublishesError ==
    \A i \in 1..Len(consumed) :
        consumed[i].fate = "not_ready" =>
            \E k \in 1..Len(mcp_responses) :
                /\ mcp_responses[k].request = i
                /\ mcp_responses[k].kind = "error"
                /\ mcp_responses[k].id = consumed[i].id

\* C15: at most one tool-client thread holds a connection at any moment.
C15_AtMostOneClientConnection ==
    Cardinality({t \in McpThreads : mcp_thread_pc[t] = "connected"}) <= 1

\* what remains of C15 without shutdown: the thread the registry refers to is
\* the only one that has not ended
OneClientThreadUnlessShutdown ==
    (\A t \in McpThreads : ~mcp_event_set[t]) =>
        Cardinality({t \in McpThreads : mcp_thread_pc[t] \notin {"unborn", "ended"}}) <= 1

\* C16: a request that was in flight when its client connection ended has, once
\* it is settled, an error response with its id on mcp_responses.
C16_StaleRequestFailsVisibly ==
    \A i \in 1..Len(consumed) :
        (consumed[i].stale /\ consumed[i].fate # "pending") =>
            \E k \in 1..Len(mcp_responses) :
                /\ mcp_responses[k].request = i
                /\ mcp_responses[k].kind = "error"
                /\ mcp_responses[k].id = consumed[i].id

\* what the unit has to have sent once every frame it received is answered
RECURSIVE ResponsesTo(_)
ResponsesTo(frames) ==
    IF frames = <<>> THEN <<>>
    ELSE IF Head(frames).kind = "prompt_query"
         THEN <<PromptResponse(Head(frames).content)>> \o ResponsesTo(Tail(frames))
         ELSE ResponsesTo(Tail(frames))

InitialResponse == IF ws_content # NoContent THEN <<PromptResponse(ws_content)>> ELSE <<>>

\* the messages sent after the initial response
SentAfterInitial == SubSeq(ws_sent, Len(InitialResponse) + 1, Len(ws_sent))

\* C17: the responses leave in the arrival order of the prompt frames that
\* caused them, and when the unit is about to read a frame every prompt frame
\* read before has its response sent.
C17_ResponsesInArrivalOrder ==
    (ws_pc \in {"loop", "recv", "respond", "closing"} \/ ws_received # <<>>) =>
        LET want == ResponsesTo(ws_received) IN
            /\ Len(SentAfterInitial) <= Len(want)
            /\ SentAfterInitial = SubSeq(want, 1, Len(SentAfterInitial))
            /\ Len(want) - Len(SentAfterInitial) <= 1
            /\ ws_pc \in {"loop", "recv"} => SentAfterInitial = want

\* frames x, y, x were received and answered in that order, the unit reads on
C17_Witness ==
    /\ ws_pc = "recv"
    /\ Len(ws_received) = 3
    /\ ws_received[1].content = "x" /\ ws_received[2].content = "y"
    /\ ws_received[3].content = "x"
    /\ SentAfterInitial = <<PromptResponse("x"), PromptResponse("y"), PromptResponse("x")>>

\* C18: a unit launched with a content has, from the moment it enters the
\* receive loop and as long as it has read no frame, sent exactly the one
\* response derived from that content; a unit launched without content has sent
\* nothing before its first frame.
C18_InitialResponseBeforeLoop ==
    /\ (ws_pc \in {"loop", "recv"} /\ ws_received = <<>>) => ws_sent = InitialResponse
    /\ ws_received # <<>> =>
            /\ Len(ws_sent) >= Len(InitialResponse)
            /\ SubSeq(ws_sent, 1, Len(InitialResponse)) = InitialResponse
    /\ ws_pc \in {"idle", "connect", "greet"} => ws_sent = <<>>

\* the unit was launched with content x, has sent its response and has then
\* read its first frame
C18_Witness ==
    /\ ws_content = "x"
    /\ Len(ws_received) = 1
    /\ ws_sent = <<PromptResponse("x")>>
    /\ ws_pc = "loop"

\* C19: a frame that is neither a close instruction nor a well-formed prompt
\* query (unknown type, missing fields, not JSON) makes the unit send nothing
\* and does not make it leave the receive loop.
C19_UnrecognizedFrameIgnored ==
    /\ ws_exit # "frame_error"
    /\ (ws_received # <<>>
            /\ ws_received[Len(ws_received)].kind
                    \in {"unknown_type", "missing_fields", "not_json"})
        => ws_pc # "respond"

\* the part of C19 that holds: a JSON object of an unknown type is ignored
UnknownTypeIgnored ==
    (ws_received # <<>> /\ ws_received[Len(ws_received)].kind = "unknown_type")
        => (ws_pc # "respond" /\ ws_exit \in {"none", "shutdown", "peer_closed"})

\* C20: close(key) does not wait for the unit, and when the registry holds no
\* entry for key it sets no signal and changes no state.
C20_CloseWithoutEntryIsNoOp ==
    [][\A k \in Keys : (Close(k) /\ ~KeyActive(k)) => UNCHANGED sessVars]_vars

\* the part of C20 that holds: close on a key that was never opened
CloseNeverOpenedIsNoOp ==
    [][\A k \in Keys : (Close(k) /\ shutdown_events[k] = NoUnit) => UNCHANGED sessVars]_vars

\* C21: a connection attempt for a key starts only in a step that is an
\* open(key) call creating the unit; no unit goes back to connecting, and no
\* unit is started by anything else, so a key never has more connection
\* attempts than open calls.
C21_NoReconnectWithoutOpen ==
    [][\A u \in Units :
        (upc'[u] = "connect" /\ upc[u] # "connect") =>
            /\ upc[u] = "unborn"
            /\ \E b \in BOOLEAN : OpenCreate(ukey'[u], b)]_vars

\* both units of one key have made their attempt and exited; nothing is
\* connecting or registered for the key
C21_Witness ==
    \E u, v \in Units :
        /\ u # v /\ ukey[u] = ukey[v]
        /\ upc[u] = "done" /\ upc[v] = "done"
        /\ conversation_threads[ukey[u]] = NoUnit

\* C22: once the stop signal is set the reader dispatches nothing more, and the
\* step in which it takes its next line makes it leave the loop, close the
\* session and return without raising.
C22_StopEndsReader ==
    [][stop_event =>
        /\ dispatched' = dispatched
        /\ last_msg' = last_msg
        /\ pos' # pos => (rpc' = "stopped" /\ ~session_open')]_vars

\* the reader had dispatched a message, then stop was set, and the next valid
\* data line made it return without being dispatched
C22_Witness ==
    /\ rpc = "stopped" /\ stop_event /\ ~session_open
    /\ Len(dispatched) = 1 /\ pos = 2
    /\ stream[1] = "valid" /\ stream[2] = "valid"

\* C23: whenever start() has returned or raised (end of stream, failure to
\* connect or bad status, exception of the dispatcher, stop), its HTTP session
\* is closed.
C23_SessionClosedOnEveryExit ==
    rpc \in {"ended_clean", "ended_transport", "ended_dispatch", "stopped"} => ~session_open

\* the dispatcher raised on the second data line and start() re-raised: the
\* session is closed
C23_Witness ==
    /\ rpc = "ended_dispatch" /\ ~session_open
    /\ pos = 2 /\ Len(dispatched) = 2 /\ last_out.kind = "raise"

\* C24: after the stop signal is set the control-channel read loop exits, with
\* no further line, end of body or transport failure needed from the server.
C24_StopObservedWithoutInput ==
    (stop_event /\ rpc = "reading" /\ pos = Len(stream))
        ~> (rpc # "reading" \/ pos < Len(stream) \/ stream_closed)

\* what holds of C24 for the read loop: once a further line or the end of the
\* body has arrived after the stop signal, the loop exits
StopObservedOnNextLine ==
    (stop_event /\ rpc = "reading" /\ (pos < Len(stream) \/ stream_closed))
        ~> rpc # "reading"

\* the method names the dispatcher in use has a branch for
KnownMethods == IF variant = "finetune" THEN OnEventMethods ELSE HandleEventMethods

\* C25: a message (a mapping) whose method has no handler yields an error
\* response with the non-null code -32601 and the id of the message, and has no
\* other effect: nothing is published, no session is opened or closed, and the
\* reader goes on.
C25_UnknownMethodIsError ==
    (last_msg.shape = "map" /\ last_msg.method \notin KnownMethods) =>
        /\ last_out.kind = "error"
        /\ last_out.code = MethodNotFound
        /\ last_out.code # 0
        /\ last_out.id = last_msg.id
        /\ last_out.effect = "none"
        /\ rpc # "ended_dispatch"

\* "bogus" with id a was dispatched and answered with the error carrying id a
C25_Witness ==
    /\ last_msg.shape = "map" /\ last_msg.method = "bogus" /\ last_msg.id = "a"
    /\ last_out = ErrorResponse(MethodNotFound, "a")
    /\ rpc = "reading"

\* C26: a worker_ping message with id X yields the result "pong" with id X,
\* for every X and whether or not the pong POST succeeds.
C26_PingYieldsPong ==
    (last_msg.shape = "map" /\ variant = "finetune"
            /\ last_msg.method \in {"worker_ping", "worker_ping_all_active"}) =>
        /\ last_out.kind = "result"
        /\ last_out.val = "pong"
        /\ last_out.id = last_msg.id
        /\ rpc # "ended_dispatch"

\* worker_ping with id b was dispatched, the POST failed, the answer is pong b
C26_Witness ==
    /\ variant = "finetune"
    /\ last_msg.method = "worker_ping" /\ last_msg.id = "b"
    /\ last_out = Result("pong", "b", "pong_post_failed")
    /\ rpc = "reading"

\* C27: every error response of the dispatcher or of the request router carries
\* the id of the request that caused it whenever that request had an id.
C27_ErrorCarriesRequestId ==
    /\ (last_out.kind = "error" /\ last_msg.id # "none") => last_out.id = last_msg.id
    /\ \A i \in 1..Len(hr_log) :
            (hr_log[i].response.kind = "error"
                /\ hr_log[i].request.id \notin {"null", "missing"})
                    => hr_log[i].response.id = hr_log[i].request.id

\* what holds of C27 in the router: the errors of a router that has a
\* redis_client carry the id of the request
RouterErrorCarriesIdWithRedis ==
    \A i \in 1..Len(hr_log) :
        (hr_log[i].response.kind = "error" /\ hr_log[i].redis = "client"
            /\ hr_log[i].request.id \notin {"null", "missing"})
                => hr_log[i].response.id = hr_log[i].request.id

\* what holds of C27 in the dispatcher
DispatcherErrorCarriesId ==
    (last_out.kind = "error" /\ last_msg.id # "none") => last_out.id = last_msg.id

\* C28: a data frame whose payload parses as JSON but is no mapping is dropped
\* like a malformed frame: it does not end the reader, which goes on with the
\* next line.
C28_NonMappingFrameDropped ==
    last_msg.shape \in NonMappingShapes =>
        /\ rpc # "ended_dispatch"
        /\ last_out.kind # "raise"

C30_OnlySubscribedChannels ==
    /\ bs_last.type = "message" => bs_last.channel \in bs_subs[Owner(bs_last.by)]
    /\ \A c \in Clients :
        /\ \A i \in 1..Len(bs_inbox[c]) :
                bs_inbox[c][i].type = "message" => bs_inbox[c][i].channel \in bs_subs[c]

\* s3 obtained a message on "requests"; s1, whose handle is subscribed to
\* "other" only, polled until the timeout and got nothing
C30_Witness ==
    /\ bs_subs["p1"] = {"other"}
    /\ bs_asked["s1"] = {"other"}
    /\ bs_inbox["p1"] = <<>>
    /\ bs_seen["s1"] = <<>>
    /\ bs_last = Nothing("s1")
    /\ bs_seen["s3"] = <<1>>
    /\ bs_asked["s3"] = {"requests"}

\* C31: poll never raises on an undecodable payload: a message whose payload is
\* no JSON is returned with the raw payload unchanged, and a transport error
\* during poll yields no message instead of an exception.
C31_PollNeverRaises ==
    /\ bs_last.data.t # "exception"
    /\ bs_last.orig = RawText =>
            /\ bs_last.type = "message"
            /\ bs_last.data = [t |-> "str", s |-> RawText.s]

\* s1 polled the raw text published on "requests" and got it as it was
C31_Witness ==
    /\ bs_last.by = "s1"
    /\ bs_last.type = "message"
    /\ bs_last.orig = RawText
    /\ bs_last.data = [t |-> "str", s |-> "x"]

\* the transport-error half of C31: a poll that failed with a message still
\* on the connection returned nothing
PollFailedReturnedNothing ==
    /\ bs_last = Nothing("s3")
    /\ bs_inbox["p2"] # <<>>
    /\ bs_inbox["p2"][1].type = "message"

\* the messages among the first n entries waiting on a connection
PendingMessages(c) ==
    {bs_inbox[c][i].n : i \in {k \in 1..Len(bs_inbox[c]) : bs_inbox[c][k].type = "message"}}

\* the messages a component's polls have returned
SeenSet(s) == {bs_seen[s][i] : i \in 1..Len(bs_seen[s])}

\* C32: delivery is at-most-once and broadcast: no message is returned twice to
\* a component, and every component that had subscribed to the channel of a
\* published message, two components of one client included, has been handed
\* its own copy once nothing waits on its connection.
C32_BroadcastAtMostOnce ==
    \A s \in Subscribers :
        /\ \A i, k \in 1..Len(bs_seen[s]) : i # k => bs_seen[s][i] # bs_seen[s][k]
        /\ PendingMessages(Owner(s)) = {} => bs_due[s] \subseteq SeenSet(s)

\* what holds of C32: no message is returned twice, and no message is returned
\* to two components of one client
AtMostOncePerHandle ==
    /\ \A s \in Subscribers :
        \A i, k \in 1..Len(bs_seen[s]) : i # k => bs_seen[s][i] # bs_seen[s][k]
    /\ \A s, r \in Subscribers :
        (s # r /\ Owner(s) = Owner(r)) => SeenSet(s) \cap SeenSet(r) = {}

\* what holds of C32: the component that has its client's handle to itself is
\* handed every message published on a channel it subscribed to
BroadcastAcrossClients ==
    PendingMessages("p2") = {} => bs_due["s3"] \subseteq SeenSet("s3")

\* C33: the registry lock is held only by a call of open that has started its
\* thread and not yet registered it, never by a unit that connects, receives,
\* sends or runs the handler: whenever a unit is in such a blocking step and no
\* registration is pending, the lock is free for open and close of any key.
C33_LockNeverHeldWhileBlocking ==
    /\ thread_lock # NoUnit =>
            /\ conversation_threads[ukey[thread_lock]] # thread_lock
            /\ open_ret.fresh /\ open_ret.unit = NoUnit
    /\ \A u \in Units :
            (upc[u] \in ConnStates /\ conversation_threads[ukey[u]] = u)
                => thread_lock # u

\* unit 1 is blocked in recv with its shutdown signal set by a close, unit 2
\* of another key was opened and registered meanwhile, and the lock is free
C33_Witness ==
    /\ upc[1] = "recv" /\ event_set[1]
    /\ upc[2] \in ConnStates
    /\ ukey[1] # ukey[2]
    /\ conversation_threads[ukey[2]] = 2
    /\ thread_lock = NoUnit

\* with C33: a held lock is released again whatever the units do
LockAlwaysReleased == (thread_lock # NoUnit) ~> (thread_lock = NoUnit)

\* C34: between the end of a run and the start of the next one the supervisor
\* sleeps the current delay: whenever the loop is about to start an attempt
\* that is not the first, a sleep of the delay in force when the run ended has
\* been completed (the delay now is that one doubled under the ceiling).
C34_SleepBeforeRetry ==
    (spc = "loop" /\ running /\ attempt >= 1) =>
        (slept >= RetryFloor /\ retry_delay = NextDelay(slept))

\* the third attempt is about to start after a failed run and a sleep of 2 s
C34_Witness ==
    spc = "loop" /\ running /\ attempt = 2 /\ event_task = "exc" /\ slept = 2

\* a run is never started in the state that follows the finally block: the
\* retry sleep or the loop test lies in between
C34_NoStartFromAfter == [][spc = "after" => attempt' = attempt]_vars

\* C39: in every reachable state of the retry supervisor loop retry_delay is
\* one of 1, 2, 4, 8, 16, 32, 60: never below the floor, never above the
\* ceiling, whatever the number of consecutive failures.
C39_DelayOnLadder == retry_delay \in {1, 2, 4, 8, 16, 32, 60}

\* the delay has reached the ceiling and a further sleep of 60 s has doubled it
\* again: it stays at the ceiling
C39_Witness ==
    spc = "loop" /\ slept = MaxDelay /\ retry_delay = MaxDelay /\ fails >= 7

\* the delay never decreases and never changes except when a sleep ends
C39_DelayOnlyGrowsOnWake ==
    [][/\ retry_delay' >= retry_delay
       /\ retry_delay' # retry_delay => spc = "sleeping"]_vars

\* C35: when the connection of the external MCP client ends (HTTPClient.start
\* has returned) while the process is running, run_mcp_client eventually goes
\* on to its retry sleep, from which a new client is started -- unless the
\* process is shut down first.
C35_RestartAfterConnectionEnds ==
    (client_pc = "ended" /\ mcp_running) ~> (mcp_pc = "sleeping" \/ ~mcp_running)

\* the supervisor never reaches its retry sleep: asyncio.wait returns only when
\* the redis task is done, which takes running to be false
RouterNeverSleeps == mcp_pc # "sleeping"

\* once the first client has ended the ready flag is never set again
ReadyNeverSetAgain == [][client_pc = "ended" => ~client_ready']_vars

\* C40: RedisClient.publish never raises to its caller; on a Redis error of
\* the first attempt it reconnects and, the reconnect succeeding, makes exactly
\* one more attempt; it returns 0 when the serialization, the reconnect or the
\* retry fails; one call makes at most two publish attempts.
C40_PublishNeverRaises ==
    pub_calls >= 1 =>
        LET in == pub_last.in
            out == pub_last.out
            reconnected == connect_with_retry(in.pings) = "ok"
        IN  /\ ~out.raised
            /\ ~out.value.none
            /\ out.attempts <= 2
            /\ out.connects <= 1
            /\ (in.serializable /\ in.first = "redis_error")
                    => (out.connects = 1 /\ out.attempts = IF reconnected THEN 2 ELSE 1)
            /\ (in.serializable /\ in.first # "redis_error")
                    => (out.connects = 0 /\ out.attempts = 1)
            /\ ~in.serializable => (out.attempts = 0 /\ out.value = Count(0))
            /\ (in.serializable /\ in.first = "redis_error" /\ ~reconnected)
                    => out.value = Count(0)
            /\ (in.serializable /\ in.first = "redis_error" /\ in.second # "ok")
                    => out.value = Count(0)
            /\ (in.serializable /\ in.first = "redis_error" /\ reconnected
                    /\ in.second = "ok") => out.value = Count(in.receivers)

\* the first attempt met a Redis error, the third connection attempt answered
\* and the second publish attempt failed as well: 0 is returned
C40_Witness ==
    /\ pub_calls >= 1
    /\ pub_last.in.serializable
    /\ pub_last.in.first = "redis_error"
    /\ pub_last.in.pings = [i \in 1..MaxRetries |-> i = MaxRetries]
    /\ pub_last.in.second = "redis_error"
    /\ pub_last.out = OpResult(Count(0), 2, 1, FALSE)

\* a call whose reconnect failed: every ping failed, one attempt, 0 returned
ReconnectFailedReturnsZero ==
    /\ pub_calls >= 1
    /\ pub_last.in.serializable
    /\ pub_last.in.first = "redis_error"
    /\ connect_with_retry(pub_last.in.pings) = "raise"
    /\ pub_last.out = OpResult(Count(0), 1, 1, FALSE)

\* C36: in MCPClientProcess a request that waits on mcp_requests while the MCP
\* client is connected (session established, not stopped) is eventually taken
\* up -- read from the subscription, queued, dequeued and passed to the client's
\* handle_request -- unless the connection ends or the process is shut down
\* first.
C36_RequestTakenWhileConnected ==
    (Connected /\ is_running /\ cp_running /\ cp_pending >= 1)
        ~> (cp_pending = 0 \/ ~Connected \/ ~cp_running)

\* no request is ever read from the subscription: the two processors are
\* started only after start() has returned, and start() ends by raising
RequestsNeverRead == [][cp_pending' >= cp_pending]_vars

\* the supervisor is inside start() for as long as a client exists
ClientOnlyInsideStart == cp_client # "none" => cp_pc \in {"start", "stopped"}

\* C37: after close(key) has set the session's Event the unit takes at most one
\* further inbound frame (the one its pending receive returns) and sends at
\* most one further response before it leaves the receive loop; the Event,
\* once set, is never cleared.
C37_AtMostOneFrameAfterClose ==
    /\ [](ws_at_close.set =>
            /\ Len(ws_received) <= ws_at_close.received + 1
            /\ Len(ws_sent) <= ws_at_close.sent + 1)
    /\ [][ws_event => ws_event']_vars

\* the Event was set during a receive: the frame it returned was a query, it
\* was answered, and the loop test then ended the unit
C37_Witness ==
    /\ ws_at_close.set
    /\ Len(ws_received) = ws_at_close.received + 1
    /\ Len(ws_sent) = ws_at_close.sent + 1
    /\ ws_received[Len(ws_received)].kind = "prompt_query"
    /\ ws_pc = "ended"
    /\ ws_exit = "shutdown"

\* C38: a close(key) issued while no unit is live for the key never shuts down
\* a session created by a later open(key): a unit starts with an Event that is
\* unset and is the one stored for its key, and an Event becomes set only for
\* a unit that exists already and whose Event is the one stored for its key.
C38_CloseNeverReachesLaterOpen ==
    [][\A u \in Units :
        /\ (upc[u] = "unborn" /\ upc'[u] # "unborn")
                => (~event_set'[u] /\ shutdown_events'[ukey'[u]] = u)
        /\ (~event_set[u] /\ event_set'[u])
                => (upc[u] # "unborn" /\ shutdown_events[ukey[u]] = u)]_vars

\* the first unit of a key has finished and its Event is set; the open that
\* followed found the key closed, created a second unit, and that unit waits
\* in its receive loop with its own Event unset
C38_Witness ==
    \E u, v \in Units :
        /\ u < v /\ ukey[u] = ukey[v]
        /\ upc[u] = "done" /\ event_set[u]
        /\ open_ret.fresh /\ open_ret.closed /\ open_ret.prevDone /\ open_ret.unit = v
        /\ upc[v] = "recv" /\ ~event_set[v]
        /\ shutdown_events[ukey[v]] = v

\* a unit that does not exist yet has no set Event
UnbornUnitsUnset == \A u \in Units : upc[u] = "unborn" => ~event_set[u]

====
